---------------------------- MODULE Spec2Model ----------------------------
(***************************************************************************)
(* Field-resolution and record-reconciliation core of the email-to-table   *)
(* automation: SynonymResolver, RuleEngine, TypeExtractor (smart search),  *)
(* RecordBuilder (email_to_record), RecordExpander                          *)
(* (expand_order_numbers_to_rows) and TableMerger (merge_tables).           *)
(*                                                                         *)
(* Python strings are TLA+ strings; a dict is a sequence of <<key, value>> *)
(* pairs in insertion order; a regular expression is a sequence of items   *)
(* run by a backtracking matcher with Python's leftmost, greedy semantics. *)
(***************************************************************************)
EXTENDS Integers, Sequences, FiniteSets, TLC

VARIABLES
    pc,            \* which call has run: "start", then the name of the call
    emails,        \* the input units of the job, each a dict of keys to values
    schema,        \* schema["columns"]: sequence of column dicts
    rules,         \* sequence of rule dicts
    explain,       \* explain flag of the call
    use_synonyms,  \* use_synonyms flag of the call
    use_ai,        \* use_ai flag of the call
    ai_threshold,  \* ai_threshold of the call
    rule_out,      \* <<result, explanations>> of apply_keyword_rules_enhanced
    rule_order,    \* sorted_rules of that call, as positions in rules
    results,       \* per processed unit, the list of <<record, explanations>>
    all_records,   \* merge_tables: the input records
    index_column,  \* merge_tables: the declared index column ("" = None)
    schema_columns,\* merge_tables: schema column names
    merged,        \* merge_tables: the returned list
    explanations,  \* the job: the explanation list it returns
    ai_replies,    \* the suggestion endpoint: per column, the outcome of a request
    ai_configured, \* the AI helper exists and is_configured()
    config,        \* SynonymResolver: the config file at config_path
    synonyms,      \* SynonymResolver: self.synonyms of the constructed resolver
    call,          \* SynonymResolver: the last call on the resolver and its outcome
    cache,         \* PatternLearner: the cache file on disk
    learned,       \* PatternLearner: self.patterns["number_patterns"]
    analyzed,      \* PatternLearner: the records of the analyze_records call
    master,        \* append_rows: the arguments of the call
    appended       \* append_rows: the returned <<merged_headers, result_rows>>

vars == <<pc, emails, schema, rules, explain, use_synonyms, use_ai, ai_threshold,
          rule_out, rule_order, results, all_records, index_column, schema_columns,
          merged, explanations, ai_replies, ai_configured, config, synonyms, call,
          cache, learned, analyzed, master, appended>>

\* the variables of the job and its calls, and those of the other modules
job_vars == <<emails, schema, rules, explain, use_synonyms, use_ai, ai_threshold,
              rule_out, rule_order, results, all_records, index_column,
              schema_columns, merged, explanations, ai_replies, ai_configured>>
resolver_vars == <<config, synonyms, call>>
learner_vars == <<cache, learned, analyzed>>
master_vars == <<master, appended>>
side_vars == <<resolver_vars, learner_vars, master_vars>>

---------------------------------------------------------------------------
(* Characters and Python's str methods                                     *)

UpperLetters == "ABCDEFGHIJKLMNOPQRSTUVWXYZ"
LowerLetters == "abcdefghijklmnopqrstuvwxyz"
DigitChars == "0123456789"
\* printable ASCII in code point order (sorted() compares code points)
AsciiOrder == "\t\n !#$%&'()*+,-./0123456789:;<=>?@ABCDEFGHIJKLMNOPQRSTUVWXYZ[]^_abcdefghijklmnopqrstuvwxyz{|}~"

Min(a, b) == IF a < b THEN a ELSE b
Max(a, b) == IF a > b THEN a ELSE b
MinOf(S) == CHOOSE x \in S : \A y \in S : x <= y
MaxOf(S) == CHOOSE x \in S : \A y \in S : x >= y

\* s[m-1:n] with Python's clipping of the bounds
Slice(s, m, n) == SubSeq(s, Max(m, 1), Min(n, Len(s)))
At(s, i) == SubSeq(s, Max(i, 1), Min(i, Len(s)))

Upper == {SubSeq(UpperLetters, i, i) : i \in 1..26}
LowerCs == {SubSeq(LowerLetters, i, i) : i \in 1..26}
Digit == {SubSeq(DigitChars, i, i) : i \in 1..10}
Letter == Upper \cup LowerCs
Space == {" ", "\t", "\n"}
WordCs == Letter \cup Digit \cup {"_"}

\* the character at the same position of `to` as c has in `from`, c when it has none
Translate(c, from, to) ==
    LET at == {i \in 1..Len(from) : SubSeq(from, i, i) = c} IN
    IF at = {} THEN c ELSE SubSeq(to, MinOf(at), MinOf(at))
LowerChar(c) == Translate(c, UpperLetters, LowerLetters)
UpperChar(c) == Translate(c, LowerLetters, UpperLetters)

\* str.lower() and str.upper(), the halves of the string converted and joined
RECURSIVE lower(_)
lower(s) == IF Len(s) <= 1 THEN LowerChar(s)
            ELSE lower(SubSeq(s, 1, Len(s) \div 2))
                 \o lower(SubSeq(s, Len(s) \div 2 + 1, Len(s)))
RECURSIVE upper(_)
upper(s) == IF Len(s) <= 1 THEN UpperChar(s)
            ELSE upper(SubSeq(s, 1, Len(s) \div 2))
                 \o upper(SubSeq(s, Len(s) \div 2 + 1, Len(s)))

\* str.isupper(): at least one cased character and no lowercase one
isupper(s) == (\E i \in 1..Len(s) : SubSeq(s, i, i) \in Upper)
              /\ (\A i \in 1..Len(s) : SubSeq(s, i, i) \notin LowerCs)

\* s.lstrip(cs), s.rstrip(cs), s.strip(cs) and s.strip()
RECURSIVE lstrip(_, _)
lstrip(s, cs) == IF s # "" /\ Head(s) \in cs THEN lstrip(Tail(s), cs) ELSE s
RECURSIVE rstrip(_, _)
rstrip(s, cs) == IF s # "" /\ SubSeq(s, Len(s), Len(s)) \in cs
                 THEN rstrip(SubSeq(s, 1, Len(s) - 1), cs) ELSE s
stripChars(s, cs) == rstrip(lstrip(s, cs), cs)
strip(s) == stripChars(s, Space)

\* the 1-based positions at which sub occurs in s
Occurrences(sub, s) ==
    {i \in 1..(Len(s) - Len(sub) + 1) : SubSeq(s, i, i + Len(sub) - 1) = sub}
\* sub in s
In(sub, s) == Occurrences(sub, s) # {}
\* s.find(sub): 0-based in Python, here the 1-based position or 0
FirstOr0(S) == IF S = {} THEN 0 ELSE MinOf(S)
find(s, sub) == FirstOr0(Occurrences(sub, s))
startswith(s, p) == Len(p) <= Len(s) /\ SubSeq(s, 1, Len(p)) = p

\* sep.join(parts): (the parts a..b, their halves joined)
RECURSIVE JoinIn(_, _, _, _)
JoinIn(sep, parts, a, b) ==
    IF a > b THEN ""
    ELSE IF a = b THEN parts[a]
    ELSE JoinIn(sep, parts, a, (a + b) \div 2) \o sep
         \o JoinIn(sep, parts, (a + b) \div 2 + 1, b)
join(sep, parts) == JoinIn(sep, parts, 1, Len(parts))

\* re.sub(r'\s+', ' ', s)
\* (positions a..b of s, their halves converted and joined)
RECURSIVE SubSpacesIn(_, _, _)
SubSpacesIn(s, a, b) ==
    IF a > b THEN ""
    ELSE IF a = b
    THEN (IF SubSeq(s, a, a) \notin Space THEN SubSeq(s, a, a)
          ELSE IF a > 1 /\ SubSeq(s, a - 1, a - 1) \in Space THEN "" ELSE " ")
    ELSE SubSpacesIn(s, a, (a + b) \div 2) \o SubSpacesIn(s, (a + b) \div 2 + 1, b)
subSpaces(s) == SubSpacesIn(s, 1, Len(s))
\* s.split(): the whitespace-separated words
RECURSIVE split(_)
RECURSIVE SplitWords(_)
\* t starts with a word: the word, then the words after it
SplitWords(t) ==
    LET n == MinOf({k \in 1..Len(t) : k = Len(t) \/ SubSeq(t, k + 1, k + 1) \in Space})
    IN <<SubSeq(t, 1, n)>> \o split(SubSeq(t, n + 1, Len(t)))
split(s) == IF lstrip(s, Space) = "" THEN <<>> ELSE SplitWords(lstrip(s, Space))

Ord(c) == find(AsciiOrder, c)
RECURSIVE StrLess(_, _)
StrLess(a, b) == IF b = "" THEN FALSE
                 ELSE IF a = "" THEN TRUE
                 ELSE IF Head(a) = Head(b) THEN StrLess(Tail(a), Tail(b))
                 ELSE Ord(Head(a)) < Ord(Head(b))

---------------------------------------------------------------------------
(* Python's re: a pattern is a sequence of items.  M runs the items from a  *)
(* position with the rest of the pattern as continuation, so a quantifier   *)
(* backtracks exactly as re does (greedy: longest first; lazy: shortest).   *)

Inf == 10000
Item(t, s, cs, neg, lo, hi, lazy, subs) ==
    [t |-> t, s |-> s, cs |-> cs, neg |-> neg, lo |-> lo, hi |-> hi,
     lazy |-> lazy, subs |-> subs]
Lit(s) == Item("lit", s, {}, FALSE, 0, 0, FALSE, <<>>)    \* re.escape(s), case-sensitive
\* re.escape(s) under re.IGNORECASE: the literal is kept in lower case
LitI(s) == Item("liti", lower(s), {}, FALSE, 0, 0, FALSE, <<>>)
Cls(cs, lo, hi) == Item("cls", "", cs, FALSE, lo, hi, FALSE, <<>>)      \* [cs]{lo,hi}
NCls(cs, lo, hi) == Item("cls", "", cs, TRUE, lo, hi, FALSE, <<>>)      \* [^cs]{lo,hi}
LazyNCls(cs, lo, hi) == Item("cls", "", cs, TRUE, lo, hi, TRUE, <<>>)   \* [^cs]{lo,hi}?
Alt(subs) == Item("alt", "", {}, FALSE, 0, 0, FALSE, subs)  \* (?:a|b|...)
Star(sub) == Item("star", "", {}, FALSE, 0, 0, FALSE, <<sub>>)  \* (?:sub)*
Open == Item("open", "", {}, FALSE, 0, 0, FALSE, <<>>)      \* ( of group 1
Close == Item("close", "", {}, FALSE, 0, 0, FALSE, <<>>)    \* ) of group 1
Bnd == Item("bnd", "", {}, FALSE, 0, 0, FALSE, <<>>)        \* \b
Bol == Item("bol", "", {}, FALSE, 0, 0, FALSE, <<>>)        \* ^ under re.MULTILINE
Eol == Item("eol", "", {}, FALSE, 0, 0, FALSE, <<>>)        \* $ under re.MULTILINE
EndS == Item("end", "", {}, FALSE, 0, 0, FALSE, <<>>)       \* $ without re.MULTILINE
NotBehind(cs) == Item("nlb", "", cs, FALSE, 0, 0, FALSE, <<>>)  \* (?<![cs])
Opt(sub) == Alt(<<sub, <<>>>>)                              \* (?:sub)?

NoMatch == [ok |-> FALSE, start |-> 0, end |-> 0, g1 |-> <<0, 0>>]
\* the first of two attempts that matches
OrElseMatch(r, other) == IF r.ok THEN r ELSE other

IsWordAt(s, i) == i >= 1 /\ i <= Len(s) /\ SubSeq(s, i, i) \in WordCs
InCls(it, c) == (c \in it.cs) # it.neg

\* the number of consecutive characters of the class from pos, at most hi
RunLen(it, s, pos) ==
    LET limit == Min(it.hi, Len(s) - pos + 1)
        stops == {n \in 0..(limit - 1) : ~InCls(it, SubSeq(s, pos + n, pos + n))}
    IN IF stops = {} THEN Max(limit, 0) ELSE MinOf(stops)

\* of the attempts rs, one per count, the one of the preferred count among those
\* that matched (greedy: the largest; lazy: the smallest)
Preferred(it, rs) ==
    LET good == {n \in DOMAIN rs : rs[n].ok} IN
    IF good = {} THEN NoMatch
    ELSE rs[IF it.lazy THEN MinOf(good) ELSE MaxOf(good)]
\* of the attempts rs, one per start position, the leftmost that matched
Leftmost(rs) ==
    LET starts == {i \in DOMAIN rs : rs[i].ok} IN
    IF starts = {} THEN NoMatch
    ELSE [rs[MinOf(starts)] EXCEPT !.start = MinOf(starts)]

RECURSIVE M(_, _, _, _)
RECURSIVE TryAlts(_, _, _, _, _, _)
TryAlts(subs, k, rest, s, pos, cap) ==
    IF k > Len(subs) THEN NoMatch
    ELSE OrElseMatch(M(subs[k] \o rest, s, pos, cap),
                     TryAlts(subs, k + 1, rest, s, pos, cap))
\* items matched from position pos (1-based, next character); cap is group 1 so far;
\* a class is taken n times, then the rest, for every n the text allows
M(items, s, pos, cap) ==
    CASE items = <<>> -> [ok |-> TRUE, start |-> 0, end |-> pos, g1 |-> cap]
      [] items # <<>> /\ items[1].t = "lit" ->
           IF pos + Len(items[1].s) - 1 <= Len(s)
              /\ SubSeq(s, pos, pos + Len(items[1].s) - 1) = items[1].s
           THEN M(Tail(items), s, pos + Len(items[1].s), cap) ELSE NoMatch
      [] items # <<>> /\ items[1].t = "liti" ->
           IF pos + Len(items[1].s) - 1 <= Len(s)
              /\ lower(SubSeq(s, pos, pos + Len(items[1].s) - 1)) = items[1].s
           THEN M(Tail(items), s, pos + Len(items[1].s), cap) ELSE NoMatch
      [] items # <<>> /\ items[1].t = "cls" ->
           Preferred(items[1], [n \in items[1].lo..RunLen(items[1], s, pos) |->
                                   M(Tail(items), s, pos + n, cap)])
      [] items # <<>> /\ items[1].t = "alt" ->
           TryAlts(items[1].subs, 1, Tail(items), s, pos, cap)
      [] items # <<>> /\ items[1].t = "star" ->
           TryAlts(<<items[1].subs[1] \o <<items[1]>>, <<>>>>, 1, Tail(items), s, pos, cap)
      [] items # <<>> /\ items[1].t = "open" -> M(Tail(items), s, pos, <<pos, cap[2]>>)
      [] items # <<>> /\ items[1].t = "close" -> M(Tail(items), s, pos, <<cap[1], pos - 1>>)
      [] items # <<>> /\ items[1].t = "bnd" ->
           IF IsWordAt(s, pos - 1) # IsWordAt(s, pos)
           THEN M(Tail(items), s, pos, cap) ELSE NoMatch
      [] items # <<>> /\ items[1].t = "bol" ->
           IF pos = 1 \/ SubSeq(s, pos - 1, pos - 1) = "\n"
           THEN M(Tail(items), s, pos, cap) ELSE NoMatch
      [] items # <<>> /\ items[1].t = "eol" ->
           IF pos = Len(s) + 1 \/ SubSeq(s, pos, pos) = "\n"
           THEN M(Tail(items), s, pos, cap) ELSE NoMatch
      [] items # <<>> /\ items[1].t = "end" ->
           IF pos = Len(s) + 1 \/ (pos = Len(s) /\ SubSeq(s, pos, pos) = "\n")
           THEN M(Tail(items), s, pos, cap) ELSE NoMatch
      [] items # <<>> /\ items[1].t = "nlb" ->
           IF pos > 1 /\ SubSeq(s, pos - 1, pos - 1) \in items[1].cs
           THEN NoMatch ELSE M(Tail(items), s, pos, cap)

\* re.search from position `from`: the leftmost match
SearchFrom(p, s, from) == Leftmost([i \in from..(Len(s) + 1) |-> M(p, s, i, <<0, 0>>)])
search(p, s) == SearchFrom(p, s, 1)
group0(s, r) == Slice(s, r.start, r.end - 1)
group1(s, r) == Slice(s, r.g1[1], r.g1[2])
\* m.group(1) of a search, "" when there is no match
Group1(s, r) == IF r.ok THEN group1(s, r) ELSE ""

\* re.findall for a pattern with one group: the group of every match, left to right
RECURSIVE FindAllFrom(_, _, _)
RECURSIVE FindAllAfter(_, _, _)
FindAllAfter(p, s, r) ==
    IF ~r.ok THEN <<>>
    ELSE <<group1(s, r)>> \o FindAllFrom(p, s, IF r.end > r.start THEN r.end ELSE r.end + 1)
FindAllFrom(p, s, from) == FindAllAfter(p, s, SearchFrom(p, s, from))
findall(p, s) == FindAllFrom(p, s, 1)

---------------------------------------------------------------------------
(* dict: a sequence of <<key, value>> pairs in insertion order             *)

Keys(d) == [i \in 1..Len(d) |-> d[i][1]]
KeySet(d) == {d[i][1] : i \in 1..Len(d)}
Has(d, k) == \E i \in 1..Len(d) : d[i][1] = k
Get(d, k, default) == IF Has(d, k)
                      THEN d[CHOOSE i \in 1..Len(d) : d[i][1] = k][2]
                      ELSE default
\* d[k] = v: the value replaced in place, or the pair appended
Put(d, k, v) == IF Has(d, k)
                THEN [i \in 1..Len(d) |-> IF d[i][1] = k THEN <<k, v>> ELSE d[i]]
                ELSE Append(d, <<k, v>>)
\* d.update(e) gone wrong: only the keys d lacks are taken from e
UpdateMissingOnly(d, e) ==
    LET Missing(pair) == ~Has(d, pair[1]) IN d \o SelectSeq(e, Missing)
\* d.update(e)
RECURSIVE Update(_, _)
Update(d, e) == IF e = <<>> THEN d
                ELSE Update(Put(d, e[1][1], e[1][2]), Tail(e))
SeqToSet(q) == {q[i] : i \in 1..Len(q)}
\* the elements of q at the positions P, in order
Pick(q, P) ==
    [k \in 1..Cardinality(P) |-> q[CHOOSE i \in P : Cardinality({j \in P : j <= i}) = k]]
\* the positions of keys holding a key for the first time
FirstOccurrences(keys) == {i \in 1..Len(keys) : \A j \in 1..(i - 1) : keys[j] # keys[i]}
\* list(dict.fromkeys(q)): first occurrences, in order
Unique(q) == Pick(q, FirstOccurrences(q))
\* the concatenation of the sequences a..b of seqs, the halves concatenated
RECURSIVE FlattenIn(_, _, _)
FlattenIn(seqs, a, b) ==
    IF a > b THEN <<>>
    ELSE IF a = b THEN seqs[a]
    ELSE FlattenIn(seqs, a, (a + b) \div 2) \o FlattenIn(seqs, (a + b) \div 2 + 1, b)
Flatten(seqs) == FlattenIn(seqs, 1, Len(seqs))
\* of the attempts vals, each <<found, value>>, the value of the first found, else ""
FirstFound(vals) ==
    LET hits == {i \in 1..Len(vals) : vals[i][1]} IN
    IF hits = {} THEN "" ELSE vals[MinOf(hits)][2]
NonEmpty(v) == <<v # "", v>>
\* e, once v has its value: Python computes a call's arguments, and a statement's
\* right-hand side, before it goes on
Eager(v, e) == IF v = v THEN e ELSE e
\* the list f, its elements computed
Listed(f) == f \o <<>>
Take(q, n) == SubSeq(q, 1, Min(n, Len(q)))

---------------------------------------------------------------------------
(* SynonymResolver with the built-in default table                          *)

DefaultSynonyms == <<
    <<"qc", <<"quality criticality", "quality crit", "criticality">>>>,
    <<"quality criticality", <<"qc", "quality crit">>>>,
    <<"wo", <<"work order", "work order number", "workorder">>>>,
    <<"work order", <<"wo", "wo #", "work order number">>>>,
    <<"order", <<"order number", "order #", "order no">>>>,
    <<"equipment", <<"equipment id", "equip", "eq">>>>,
    <<"building", <<"bldg", "building number", "bldg #">>>>,
    <<"date", <<"due date", "finish date", "completion date">>>>,
    <<"status", <<"completion status", "state">>>>,
    <<"description", <<"desc", "details">>>>,
    <<"comments", <<"notes", "remarks">>>> >>

\* the lookup gone wrong: the entries related to the name and, a second hop, the
\* entries related to a name of those
RelatedEntriesTwoHops(table, name_lower) ==
    LET Related(i, n) == n \in SeqToSet(table[i][2]) \/ In(table[i][1], n)
                         \/ In(n, table[i][1])
        near == {i \in 1..Len(table) : Related(i, name_lower)}
        names == UNION {{table[i][1]} \cup SeqToSet(table[i][2]) : i \in near}
    IN Flatten([i \in 1..Len(table) |->
                   IF i \in near \/ \E n \in names : Related(i, n)
                   THEN <<table[i][1]>> \o table[i][2] ELSE <<>>])
\* the loop over self.synonyms.items(): key and values of every related entry
RelatedEntries(table, name_lower) ==
    Flatten([i \in 1..Len(table) |->
                IF name_lower \in SeqToSet(table[i][2]) \/ In(table[i][1], name_lower)
                   \/ In(name_lower, table[i][1])
                THEN <<table[i][1]>> \o table[i][2] ELSE <<>>])

\* the de-duplication loop: first occurrence up to case and surrounding blanks
UniqueLower(q) == Pick(q, FirstOccurrences([i \in 1..Len(q) |-> strip(lower(q[i]))] \o <<>>))

SynonymsOf(table, column_name, name_lower) ==
    UniqueLower(<<column_name, name_lower>> \o Get(table, name_lower, <<>>)
                \o RelatedEntries(table, name_lower))
get_synonyms_in(table, column_name) ==
    SynonymsOf(table, column_name, strip(lower(column_name)))

get_synonyms(column_name) == get_synonyms_in(DefaultSynonyms, column_name)

\* SynonymResolver.matches / columns_match
columns_match(column_name, search_term) ==
    LET col_lower == strip(lower(column_name))
        search_lower == strip(lower(search_term))
    IN \/ col_lower = search_lower
       \/ In(search_lower, col_lower) \/ In(col_lower, search_lower)
       \/ {lower(x) : x \in SeqToSet(get_synonyms(column_name))}
            \cap {lower(x) : x \in SeqToSet(get_synonyms(search_term))} # {}

\* a value read from the config file by json.load, tagged with its Python type; a
\* dict holds <<key, value>> pairs, and the "synonyms" mapping of a well-formed file
\* holds lists of strings
JDict(items) == [type |-> "dict", items |-> items]
JList(items) == [type |-> "list", items |-> items]
JNull == [type |-> "NoneType", items |-> <<>>]

\* the outcome of a call: the value it returns, or an exception it lets through
Returned(value) == [raised |-> FALSE, value |-> value]
Raised == [raised |-> TRUE, value |-> <<>>]

\* _load_defaults(): self.synonyms
_load_defaults == JDict(DefaultSynonyms)
\* _load_config(config_path): open and json.load fail on an unreadable or invalid
\* file, data.get fails on data that is no dict; any exception loads the defaults
_load_config(cfg) ==
    IF cfg.kind = "json" /\ cfg.data.type = "dict"
    THEN Get(cfg.data.items, "synonyms", JDict(<<>>))
    ELSE _load_defaults
\* SynonymResolver(config_path): self.synonyms after construction
SynonymResolver(cfg) ==
    IF cfg.kind # "absent" THEN _load_config(cfg) ELSE _load_defaults

\* self.get_synonyms(column_name): a table that is a list or None has no items()
\* (and cannot be indexed by a name), so the call raises
resolver_get_synonyms(self, column_name) ==
    IF self.type = "dict" THEN Returned(get_synonyms_in(self.items, column_name))
    ELSE Raised
\* self.matches(column_name, search_term)
resolver_matches(self, column_name, search_term) ==
    LET col_lower == strip(lower(column_name))
        search_lower == strip(lower(search_term))
        col_synonyms == resolver_get_synonyms(self, column_name)
        search_synonyms == resolver_get_synonyms(self, search_term)
    IN IF \/ col_lower = search_lower
          \/ In(search_lower, col_lower) \/ In(col_lower, search_lower)
       THEN Returned(TRUE)
       ELSE IF col_synonyms.raised THEN Raised
       ELSE Returned({lower(x) : x \in SeqToSet(col_synonyms.value)}
                       \cap {lower(x) : x \in SeqToSet(search_synonyms.value)} # {})

\* None, and a column returned by find_matching_column
None == [found |-> FALSE, col |-> ""]
Some(col) == [found |-> TRUE, col |-> col]
\* the body of the loop over available_columns: the column is the search term or
\* equals, contains or is contained in one of its synonyms
ColumnHit(col, search_lower, search_synonyms) ==
    LET col_lower == strip(lower(col))
    IN \/ col_lower = search_lower
       \/ \E i \in 1..Len(search_synonyms) :
              \/ col_lower = lower(search_synonyms[i])
              \/ In(lower(search_synonyms[i]), col_lower)
              \/ In(col_lower, lower(search_synonyms[i]))
\* self.find_matching_column(search_term, available_columns)
find_matching_column(self, search_term, available_columns) ==
    LET search_lower == strip(lower(search_term))
        search_synonyms == resolver_get_synonyms(self, search_term)
        hits == IF search_synonyms.raised THEN {}
                ELSE {i \in 1..Len(available_columns) :
                         ColumnHit(available_columns[i], search_lower,
                                   search_synonyms.value)}
    IN IF search_synonyms.raised THEN Raised
       ELSE IF hits = {} THEN Returned(None)
       ELSE Returned(Some(available_columns[MinOf(hits)]))

---------------------------------------------------------------------------
(* Confidence scale and the RuleEngine                                      *)

\* r.get(k, default) for a rule or a column spec, a record that may omit fields
RGet(r, k, default) == IF k \in DOMAIN r THEN r[k] ELSE default

_confidence(source, matched) ==
    IF ~matched THEN 0
    ELSE CASE source = "direct" -> 10
           [] source = "standard_field" -> 9
           [] source = "rule" -> 8
           [] source = "synonym_direct" -> 7
           [] source = "smart_heading" -> 6
           [] source = "smart_fallback" -> 3
           [] OTHER -> 5

normalize_text(text) == lower(strip(subSpaces(text)))

\* a unit field read with .get(name, ""); the units here carry no attachment lists,
\* so "attachments" and "attachment_text" read as their default, the empty list
Field(unit, name) == Get(unit, name, "")
Attachments(unit) == Get(unit, "attachments", <<>>)
AttachmentText(unit) == Get(unit, "attachment_text", <<>>)

AllFields == <<"subject", "body", "attachments_text", "attachments_names", "from", "to">>

get_search_content(unit, search_in) ==
    LET sel == IF "all" \in SeqToSet(search_in) THEN SeqToSet(AllFields)
               ELSE SeqToSet(search_in)
        parts == (IF "subject" \in sel THEN <<Field(unit, "subject")>> ELSE <<>>)
              \o (IF "body" \in sel THEN <<Field(unit, "body")>> ELSE <<>>)
              \o (IF "attachments_text" \in sel THEN AttachmentText(unit) ELSE <<>>)
              \o (IF "attachments_names" \in sel THEN Attachments(unit) ELSE <<>>)
              \o (IF "from" \in sel THEN <<Field(unit, "from")>> ELSE <<>>)
              \o (IF "to" \in sel THEN <<Field(unit, "to")>> ELSE <<>>)
    IN join(" ", parts)

\* rules.index(r): the first position holding an equal rule
IndexOf(q, x) == CHOOSE i \in 1..Len(q) : q[i] = x /\ \A j \in 1..(i - 1) : q[j] # x

\* the sort key with the index not negated: (priority, rules.index(r)), reverse=True
SortsBeforeIndexNotNegated(rs, i, j) ==
    LET pi == RGet(rs[i], "priority", 0)
        pj == RGet(rs[j], "priority", 0)
    IN \/ pi > pj
       \/ pi = pj /\ IndexOf(rs, rs[i]) > IndexOf(rs, rs[j])
       \/ pi = pj /\ IndexOf(rs, rs[i]) = IndexOf(rs, rs[j]) /\ i < j

\* the sort key (priority, -rules.index(r)) compared for reverse=True:
\* position i is evaluated before position j
SortsBefore(rs, i, j) ==
    LET pi == RGet(rs[i], "priority", 0)
        pj == RGet(rs[j], "priority", 0)
        ki == 0 - IndexOf(rs, rs[i])
        kj == 0 - IndexOf(rs, rs[j])
    IN \/ pi > pj
       \/ pi = pj /\ ki > kj
       \/ pi = pj /\ ki = kj /\ i < j

\* sorted(rules, key=..., reverse=True), as the positions of rules in evaluation order
RECURSIVE SortPositions(_, _)
SortPositions(rs, left) ==
    IF left = {} THEN <<>>
    ELSE LET first == CHOOSE i \in left : \A j \in left \ {i} : SortsBefore(rs, i, j)
         IN <<first>> \o SortPositions(rs, left \ {first})
sorted_rules(rs) == LET pos == SortPositions(rs, 1..Len(rs)) IN
                    [k \in 1..Len(rs) |-> rs[pos[k]]]

\* a rule's regex: a pattern of literal characters, or one that does not compile
\* (an unclosed group), for which re.search raises re.error
RegexCompiles(p) == ~In("(", p)
regex_search(p, content) == RegexCompiles(p) /\ search(<<LitI(p)>>, content).ok

\* the keyword loop: the position of the first keyword found, 0 when none is
RECURSIVE FirstKeyword(_, _, _, _)
FirstKeyword(keywords, k, word_boundary, normalized) ==
    IF k > Len(keywords) THEN 0
    ELSE IF (IF word_boundary
             THEN search(<<Bnd, Lit(lower(keywords[k])), Bnd>>, normalized).ok
             ELSE In(lower(keywords[k]), normalized))
    THEN k
    ELSE FirstKeyword(keywords, k + 1, word_boundary, normalized)

\* the outcome of one rule given the keyword found (0: none) and the content
RuleMatchAt(rule, hit, content) ==
    IF hit # 0
    THEN [matched |-> TRUE,
          match_type |-> IF RGet(rule, "word_boundary", TRUE) THEN "keyword_word"
                         ELSE "keyword_substring",
          matched_term |-> RGet(rule, "keywords", <<>>)[hit]]
    ELSE IF RGet(rule, "regex", "") # "" /\ regex_search(RGet(rule, "regex", ""), content)
    THEN [matched |-> TRUE, match_type |-> "regex", matched_term |-> RGet(rule, "regex", "")]
    ELSE [matched |-> FALSE, match_type |-> "", matched_term |-> ""]
RuleMatchOn(rule, content) ==
    RuleMatchAt(rule,
                FirstKeyword(RGet(rule, "keywords", <<>>), 1,
                             RGet(rule, "word_boundary", TRUE), normalize_text(content)),
                content)
\* one rule against the unit: matched, match_type, matched_term
RuleMatch(unit, rule) ==
    RuleMatchOn(rule, get_search_content(unit, RGet(rule, "search_in", <<"all">>)))

RuleColumn(rule) == RGet(rule, "column", RGet(rule, "header", ""))

\* result[column] and explanations[column] written for the outcome m of a rule
PutRule(acc, rule, m, with_explain) ==
    <<Put(acc[1], RuleColumn(rule),
          IF m.matched THEN RGet(rule, "value", "Yes")
          ELSE RGet(rule, "unmatched_value", "")),
      IF with_explain
      THEN Put(acc[2], RuleColumn(rule),
               [matched |-> m.matched, match_type |-> m.match_type,
                matched_term |-> m.matched_term,
                confidence |-> _confidence("rule", m.matched), source |-> "rule"])
      ELSE acc[2]>>

\* the loop over sorted_rules; acc is <<result, explanations>>
RECURSIVE RuleLoop(_, _, _, _)
RuleLoop(unit, todo, with_explain, acc) ==
    IF todo = <<>> THEN acc
    ELSE IF Has(acc[1], RuleColumn(todo[1]))
    THEN RuleLoop(unit, Tail(todo), with_explain, acc)
    ELSE RuleLoop(unit, Tail(todo), with_explain,
                  PutRule(acc, todo[1], RuleMatch(unit, todo[1]), with_explain))

apply_keyword_rules_enhanced(unit, rs, with_explain) ==
    RuleLoop(unit, sorted_rules(rs), with_explain, <<<<>>, <<>>>>)

---------------------------------------------------------------------------
(* TypeExtractor: _extract_number_only, extract_prefix_numbers and          *)
(* smart_search_column                                                      *)

Sp0 == Cls(Space, 0, Inf)                     \* \s*
LabelSep == Cls({":", "-", "="}, 1, 1)        \* [:\-=]
AZ(lo, hi) == Cls(Upper, lo, hi)              \* [A-Z]{lo,hi}
D(lo, hi) == Cls(Digit, lo, hi)               \* \d{lo,hi} and [0-9]{lo,hi}

\* rf'{re.escape(name)}\s*[:\-=]\s*([^\n,;]+)'
LabelPattern(name) ==
    <<LitI(name), Sp0, LabelSep, Sp0, Open, NCls({"\n", ",", ";"}, 1, Inf), Close>>

\* the first of two values that is not empty
OrElse(v, other) == IF v # "" THEN v ELSE other

\* re.sub(rf'\s*{re.escape(suffix)}\s*$', '', prefix, flags=re.IGNORECASE)
CutMatch(s, r) == IF r.ok THEN Slice(s, 1, r.start - 1) \o Slice(s, r.end, Len(s)) ELSE s
StripSuffix(prefix, suffix) ==
    CutMatch(prefix, search(<<Sp0, LitI(suffix), Sp0, EndS>>, prefix))
NumberSuffixes == <<"number", "num", "#", "no.", "no", "id", "code", "ref", "reference">>
RECURSIVE StripSuffixes(_, _)
StripSuffixes(prefix, suffixes) ==
    IF suffixes = <<>> \/ prefix = "" THEN prefix
    ELSE StripSuffixes(StripSuffix(prefix, suffixes[1]), Tail(suffixes))

\* re.sub(r'[#\s\.\-_]+', '', column_name)
RECURSIVE RemoveChars(_, _)
RemoveChars(s, cs) ==
    IF Len(s) <= 1 THEN (IF s \in cs THEN "" ELSE s)
    ELSE RemoveChars(SubSeq(s, 1, Len(s) \div 2), cs)
         \o RemoveChars(SubSeq(s, Len(s) \div 2 + 1, Len(s)), cs)
ColumnStripped(column_name) == RemoveChars(column_name, {"#", ".", "-", "_"} \cup Space)

\* re.sub(r'-+', '-', s)
RECURSIVE SquashDashesIn(_, _, _)
SquashDashesIn(s, a, b) ==
    IF a > b THEN ""
    ELSE IF a = b
    THEN (IF a > 1 /\ SubSeq(s, a - 1, a) = "--" THEN "" ELSE SubSeq(s, a, a))
    ELSE SquashDashesIn(s, a, (a + b) \div 2) \o SquashDashesIn(s, (a + b) \div 2 + 1, b)
SquashDashes(s) == SquashDashesIn(s, 1, Len(s))

\* re.split(r'\s{2,}|\t', value)[0]
BeforeMatch(s, r) == IF r.ok THEN Slice(s, 1, r.start - 1) ELSE s
FirstCell(value) ==
    BeforeMatch(value, search(<<Alt(<<<<Cls(Space, 2, Inf)>>, <<Lit("\t")>>>>)>>, value))

\* table_patterns of extract_prefix_numbers (re.IGNORECASE | re.MULTILINE)
PrefixTablePatterns(prefix_clean) == <<
    <<LitI(prefix_clean), Sp0, Cls({":", "\t"}, 1, 1), Sp0,
      Open, NCls({"\n", "\t"}, 1, Inf), Close>>,
    <<Bol, LitI(prefix_clean), Cls(Space, 1, Inf),
      Open, NCls({"\n"}, 1, Inf), Close, Eol>> >>

\* the four patterns tried for one variation (re.IGNORECASE)
PrefixNumberPatterns(var) == <<
    <<NotBehind(Letter), LitI(var), Sp0, Cls({"#", ":", "-", "_", "/", "."}, 0, Inf), Sp0,
      Open, D(1, 1), Cls(Digit \cup {"-"} \cup Letter, 0, Inf), Close>>,
    <<NotBehind(Letter), LitI(var), Open, D(1, Inf), Close>>,
    <<Open, D(6, Inf), Sp0, LitI(var), D(0, Inf), Close>>,
    <<Bnd, Open, LitI(At(var, 1)), D(2, Inf), Close, Bnd>> >>

\* ''.join(w[0].upper() for w in words if w)
RECURSIVE Initials(_)
Initials(words) == IF words = <<>> THEN ""
                   ELSE upper(At(words[1], 1)) \o Initials(Tail(words))
AcronymOf(acronym) == IF Len(acronym) >= 2 THEN <<acronym>> ELSE <<>>
WordVariations(prefix_clean, words) ==
    <<prefix_clean>> \o AcronymOf(Initials(words)) \o <<words[1]>>
\* prefix_clean, then for a multi-word prefix its acronym (2+ letters) and first word
PrefixVariations(prefix_clean) ==
    IF In(" ", prefix_clean) THEN WordVariations(prefix_clean, split(prefix_clean))
    ELSE <<prefix_clean>>

\* the table matches cleaned to their first cell, those empty or 50+ long dropped
TableCell(v) == IF v # "" /\ Len(v) < 50 THEN <<v>> ELSE <<>>
RECURSIVE TableCells(_)
TableCells(matches) ==
    IF matches = <<>> THEN <<>>
    ELSE TableCell(strip(FirstCell(strip(matches[1])))) \o TableCells(Tail(matches))
\* for pattern in table_patterns: ... the values to append, repeats included
RECURSIVE PrefixTableLoop(_, _)
PrefixTableLoop(patterns, content) ==
    IF patterns = <<>> THEN <<>>
    ELSE TableCells(findall(patterns[1], content)) \o PrefixTableLoop(Tail(patterns), content)

\* one match of a variation's pattern, prefixed with the variation unless it has it
PrefixedNumber(v, var_upper) ==
    IF v = "" THEN <<>>
    ELSE <<SquashDashes(IF ~startswith(upper(v), var_upper)
                        THEN var_upper \o "-" \o v ELSE v)>>
RECURSIVE PrefixedNumbers(_, _)
PrefixedNumbers(matches, var) ==
    IF matches = <<>> THEN <<>>
    ELSE PrefixedNumber(strip(stripChars(matches[1], {"-"})), upper(var))
         \o PrefixedNumbers(Tail(matches), var)
\* for pattern in patterns (of one variation): ... the values to append, repeats included
RECURSIVE PrefixNumberLoop(_, _, _)
PrefixNumberLoop(patterns, var, content) ==
    IF patterns = <<>> THEN <<>>
    ELSE PrefixedNumbers(findall(patterns[1], content), var)
         \o PrefixNumberLoop(Tail(patterns), var, content)
RECURSIVE VariationLoop(_, _)
VariationLoop(variations, content) ==
    IF variations = <<>> THEN <<>>
    ELSE PrefixNumberLoop(PrefixNumberPatterns(variations[1]), variations[1], content)
         \o VariationLoop(Tail(variations), content)

\* extracted holds a value once ("if value not in extracted"): the table values when
\* there are any, else the values of the variations' patterns
TableOrPatterns(table, prefix_clean, content) ==
    IF table # <<>> THEN join("; ", Take(Unique(table), 5))
    ELSE join("; ", Take(Unique(VariationLoop(PrefixVariations(prefix_clean), content)),
                         10))
PrefixNumbersOf(prefix_clean, content) ==
    TableOrPatterns(PrefixTableLoop(PrefixTablePatterns(prefix_clean), content),
                    prefix_clean, content)
extract_prefix_numbers(prefix, content) == PrefixNumbersOf(strip(prefix), content)

\* alphanumeric_patterns of _extract_number_only (case-sensitive)
NumberAlnumPatterns == <<
    <<Bnd, Open, AZ(2, Inf), D(2, Inf), Close, Bnd>>,
    <<Bnd, Open, D(6, Inf), Sp0, AZ(2, Inf), D(0, Inf), Close, Bnd>>,
    <<Bnd, Open, AZ(1, 1), D(2, Inf), Close, Bnd>> >>
\* alphanumeric_patterns of the "mixed" branch (case-sensitive)
MixedAlnumPatterns == <<
    <<Bnd, Open, D(6, Inf), Sp0, AZ(2, Inf), D(0, Inf), Close, Bnd>>,
    <<Bnd, Open, AZ(2, Inf), D(3, Inf), Close, Bnd>>,
    <<Bnd, Open, AZ(1, 1), D(2, Inf), Close, Bnd>> >>

\* the first pattern with matches: its unique matches, at most 5, joined
JoinedOr(matches, other) ==
    IF matches # <<>> THEN join("; ", Take(Unique(matches), 5)) ELSE other
RECURSIVE FirstAlnum(_, _)
FirstAlnum(patterns, content) ==
    IF patterns = <<>> THEN ""
    ELSE JoinedOr(findall(patterns[1], content), FirstAlnum(Tail(patterns), content))

Strategy4Columns == {"equipment", "order", "work order", "building", "code", "id", "reference"}

\* strategy 1: the first label pattern whose cleaned value is usable
ShortOr(value, other) == IF value # "" /\ Len(value) < 50 THEN value ELSE other
RECURSIVE LabelledValue(_, _)
LabelledValue(patterns, content) ==
    IF patterns = <<>> THEN ""
    ELSE ShortOr(rstrip(strip(Group1(content, search(patterns[1], content))),
                        {",", ";", ":"} \cup Space),
                 LabelledValue(Tail(patterns), content))

\* strategies 2 and 3: extract_prefix_numbers of the prefix, then of the abbreviation
RECURSIVE FirstPrefixNumbers(_, _)
FirstPrefixNumbers(prefixes, content) ==
    IF prefixes = <<>> THEN ""
    ELSE OrElse(extract_prefix_numbers(prefixes[1], content),
                FirstPrefixNumbers(Tail(prefixes), content))

NumberStrategies(column_name, column_lower, prefix, column_stripped, content) ==
    Eager(<<column_lower, prefix, column_stripped, content>>,
    OrElse(LabelledValue(<<LabelPattern(column_name), LabelPattern(prefix)>>, content),
    OrElse(FirstPrefixNumbers(
               (IF prefix # "" THEN <<prefix>> ELSE <<>>)
               \o (IF Len(column_stripped) <= 6 /\ isupper(column_stripped)
                   THEN <<column_stripped>> ELSE <<>>), content),
           IF column_lower \in Strategy4Columns
           THEN FirstAlnum(NumberAlnumPatterns, content) ELSE "")))

_extract_number_only(column_name, content) ==
    NumberStrategies(column_name, strip(lower(column_name)),
                     strip(StripSuffixes(column_name, NumberSuffixes)),
                     ColumnStripped(column_name), content)

Meta(source, confidence) == [source |-> source, confidence |-> confidence]
Found(value, source, confidence) == [value |-> value, meta |-> Meta(source, confidence)]
\* the value found when it is not empty, else the other result
FoundOr(value, source, confidence, other) ==
    IF value # "" THEN Found(value, source, confidence) ELSE other
\* the whole match, or group 1, of a search that matched, else the other result
Found0(s, r, source, confidence, other) ==
    IF r.ok THEN Found(group0(s, r), source, confidence) ELSE other
Found1(s, r, source, confidence, other) ==
    IF r.ok THEN Found(group1(s, r), source, confidence) ELSE other

AmPm == Alt(<<<<Lit("AM")>>, <<Lit("PM")>>, <<Lit("am")>>, <<Lit("pm")>>>>)
\* r'\b(\d{1,2}:\d{2}(?::\d{2})?\s*(?:AM|PM|am|pm)?)\b', r'\b(\d{1,2}\s*(?:AM|PM|am|pm))\b'
TimePatterns == <<
    <<Bnd, Open, D(1, 2), Lit(":"), D(2, 2), Opt(<<Lit(":"), D(2, 2)>>), Sp0,
      Alt(<<<<AmPm>>, <<>>>>), Close, Bnd>>,
    <<Bnd, Open, D(1, 2), Sp0, AmPm, Close, Bnd>> >>
DateSep == Cls({"/", "-"}, 1, 1)
\* r'\d{1,2}[/\-]\d{1,2}[/\-]\d{2,4}|\d{4}[/\-]\d{1,2}[/\-]\d{1,2}'
DatePattern == <<Alt(<<
    <<D(1, 2), DateSep, D(1, 2), DateSep, D(2, 4)>>,
    <<D(4, 4), DateSep, D(1, 2), DateSep, D(1, 2)>> >>)>>
\* r'[\$€£]\s*[\d,]+\.?\d*|\d{1,3}(?:,\d{3})*(?:\.\d{2})?' (the texts hold no € or £)
AmountPattern == <<Alt(<<
    <<Cls({"$"}, 1, 1), Sp0, Cls(Digit \cup {","}, 1, Inf), Cls({"."}, 0, 1), D(0, Inf)>>,
    <<D(1, 3), Star(<<Lit(","), D(3, 3)>>), Opt(<<Lit("."), D(2, 2)>>)>> >>)>>

\* the patterns of the "mixed" branch for one name
MixedLabelPatterns(name) == <<
    <<LitI(name), Sp0, LabelSep, Sp0,
      Open, Cls(Letter \cup Digit, 1, 1), Cls(WordCs \cup Space \cup {"-"}, 0, Inf), Close>>,
    <<LitI(name), Cls({"\t"}, 1, Inf), Open, NCls({"\t", "\n"}, 1, Inf), Close>> >>
\* the patterns of the "text" branch for one name
TextLabelPatterns(name) == <<
    <<LitI(name), Sp0, LabelSep, Sp0, Open, NCls({"\n", "\t"}, 1, Inf), Close>>,
    <<LitI(name), Cls({"\t"}, 1, Inf), Open, NCls({"\t", "\n"}, 1, Inf), Close>>,
    <<LitI(name), Cls(Space, 2, Inf), Open, NCls(Space, 1, 1), LazyNCls({"\n"}, 0, Inf), Close,
      Alt(<<<<Cls(Space, 2, Inf)>>, <<EndS>>>>)>> >>
\* the label patterns a branch of smart_search_column tries for one name
LabelPatternsOf(branch, name) ==
    CASE branch = "mixed" -> MixedLabelPatterns(name)
      [] branch = "text" -> TextLabelPatterns(name)
      [] OTHER -> <<LabelPattern(name)>>

\* the first pattern, over names then patterns, whose cleaned group is not empty
FirstLabelOf(patterns, content) ==
    FirstFound([k \in 1..Len(patterns) |->
                   NonEmpty(subSpaces(strip(Group1(content, search(patterns[k], content)))))]
               \o <<>>)
FirstLabel(branch, names, content) ==
    FirstFound([i \in 1..Len(names) |->
                   NonEmpty(FirstLabelOf(LabelPatternsOf(branch, names[i]), content))]
               \o <<>>)

RECURSIVE FirstSearch(_, _)
FirstSearch(patterns, content) ==
    IF patterns = <<>> THEN NoMatch
    ELSE OrElseMatch(search(patterns[1], content), FirstSearch(Tail(patterns), content))

\* the first name for which _extract_number_only returns a value
FirstNumber(names, content) ==
    FirstFound([i \in 1..Len(names) |-> NonEmpty(_extract_number_only(names[i], content))]
               \o <<>>)

AnyIn(kws, s) == \E kw \in kws : In(kw, s)
WordIn(term, s) == search(<<Bnd, Lit(term), Bnd>>, s).ok

NumberIndicators == {"#", "number", "no.", "no", "id", "num", "code", "ref", "reference"}
TimeWords == {"time", "hour", "clock", "start time", "end time", "meeting time"}
DateWords == {"date", "when", "received", "sent", "due"}
AmountWords == {"amount", "total", "price", "cost", "qty", "quantity", "dollar", "payment"}
PriorityWords == {"priority", "urgent", "importance"}
HighWords == {"urgent", "asap", "critical", "high priority", "important", "immediately"}
LowWords == {"low priority", "fyi", "when possible", "no rush"}
StatusWords == {"status", "state"}
CompleteWords == {"complete", "done", "finished", "resolved", "closed", "approved"}
PendingWords == {"pending", "waiting", "in progress", "ongoing", "review"}
OpenWords == {"open", "new", "unread", "submitted"}
RejectedWords == {"reject", "denied", "cancel"}

\* all_content: subject, body, from, to, attachment names and attachment_text
AllContent(unit) ==
    join("\n", <<Field(unit, "subject"), Field(unit, "body"), Field(unit, "from"),
                 Field(unit, "to"), join(" ", Attachments(unit)),
                 Get(unit, "attachment_text", "")>>)
\* all_content narrowed to the context of _focus_order when the unit carries one
Focused(all_content, r) == IF r.ok THEN group0(all_content, r) ELSE all_content
FocusOn(all_content, focus_order) ==
    IF focus_order = "" \/ all_content = "" THEN all_content
    ELSE Focused(all_content,
                 search(<<NCls({"\n"}, 0, 400), LitI(focus_order), NCls({"\n"}, 0, 400)>>,
                        all_content))
SearchContent(unit) == FocusOn(AllContent(unit), Get(unit, "_focus_order", ""))

\* the label of the first word of a multi-word column name
WordLabel(first_word, all_content) ==
    IF Len(first_word) >= 2
    THEN subSpaces(strip(Group1(all_content, search(LabelPattern(first_word), all_content))))
    ELSE ""
FirstWordLabel(column_name, all_content) ==
    IF In(" ", column_name) THEN WordLabel(split(column_name)[1], all_content) ELSE ""

\* the status branch: the status words found in the content, most final first
StatusFound(is_status, all_content_lower, other) ==
    IF is_status /\ AnyIn(CompleteWords, all_content_lower)
    THEN Found("Complete", "smart_status", 6)
    ELSE IF is_status /\ AnyIn(PendingWords, all_content_lower)
    THEN Found("Pending", "smart_status", 5)
    ELSE IF is_status /\ AnyIn(OpenWords, all_content_lower)
    THEN Found("Open", "smart_status", 5)
    ELSE IF is_status /\ AnyIn(RejectedWords, all_content_lower)
    THEN Found("Rejected", "smart_status", 5)
    ELSE other

\* the untyped ("auto") part of smart_search_column, its values computed once
SmartAutoOn(unit, column_name, search_names, all_content, all_content_lower, column_lower, column_stripped) ==
    Eager(<<all_content_lower, column_lower, column_stripped>>,
    IF AnyIn(NumberIndicators, column_lower)
       \/ (Len(column_stripped) <= 5 /\ isupper(column_stripped))
    THEN FoundOr(_extract_number_only(column_name, all_content), "smart_number", 7,
                 Found("", "smart_number", 0))
    ELSE
    Found1(all_content,
           IF AnyIn(TimeWords, column_lower) THEN FirstSearch(TimePatterns, all_content)
           ELSE NoMatch, "smart_time", 6,
    IF AnyIn(DateWords, column_lower) /\ Field(unit, "date") # ""
    THEN Found(Field(unit, "date"), "smart_date", 8)
    ELSE
    Found0(all_content,
           IF AnyIn(DateWords, column_lower) THEN search(DatePattern, all_content)
           ELSE NoMatch, "smart_date", 7,
    Found0(all_content,
           IF AnyIn(AmountWords, column_lower) THEN search(AmountPattern, all_content)
           ELSE NoMatch, "smart_amount", 6,
    IF AnyIn(PriorityWords, column_lower)
    THEN (IF AnyIn(HighWords, all_content_lower) THEN Found("High", "smart_priority", 6)
          ELSE IF AnyIn(LowWords, all_content_lower) THEN Found("Low", "smart_priority", 6)
          ELSE Found("Normal", "smart_priority", 4))
    ELSE
    StatusFound(AnyIn(StatusWords, column_lower), all_content_lower,
    FoundOr(FirstLabel("label", search_names, all_content), "smart_label_match", 5,
    FoundOr(FirstWordLabel(column_name, all_content), "smart_label_match", 4,
    IF \E term \in {column_name}
                   \cup (IF In(" ", column_name) THEN SeqToSet(split(column_name)) ELSE {}) :
           Len(term) >= 2 /\ WordIn(lower(term), all_content_lower)
    THEN Found("Yes", "smart_keyword", 3)
    ELSE Found("", "smart_search", 0))))))))

SmartAuto(unit, column_name, search_names, all_content) ==
    SmartAutoOn(unit, column_name, search_names, all_content, lower(all_content),
                strip(lower(column_name)), ColumnStripped(column_name))

\* the typed branches of smart_search_column over the content and the synonyms
SmartTyped(unit, column_name, extract_type, with_synonyms, all_content, column_synonyms) ==
    Eager(<<all_content, column_synonyms>>,
    CASE extract_type = "number" ->
           FoundOr(FirstNumber(<<column_name>> \o column_synonyms, all_content),
                   "smart_number", 7, Found("", "smart_number", 0))
      [] extract_type = "mixed" ->
           FoundOr(FirstLabel("mixed",
                              <<column_name>>
                              \o (IF with_synonyms THEN column_synonyms ELSE <<>>),
                              all_content), "smart_label_match", 7,
           FoundOr(FirstAlnum(MixedAlnumPatterns, all_content), "smart_alphanumeric", 6,
                   Found("", "smart_alphanumeric", 0)))
      [] extract_type = "date" ->
           FoundOr(Field(unit, "date"), "smart_date", 8,
           Found0(all_content, search(DatePattern, all_content), "smart_date", 7,
                  Found("", "smart_date", 0)))
      [] extract_type = "time" ->
           Found1(all_content, FirstSearch(TimePatterns, all_content), "smart_time", 6,
                  Found("", "smart_time", 0))
      [] extract_type = "amount" ->
           Found0(all_content, search(AmountPattern, all_content), "smart_amount", 7,
                  Found("", "smart_amount", 0))
      [] extract_type = "yesno" ->
           IF WordIn(strip(lower(column_name)), lower(all_content))
           THEN Found("Yes", "smart_yesno", 5)
           ELSE Found("No", "smart_yesno", 5)
      [] extract_type = "text" ->
           FoundOr(FirstLabel("text",
                              <<column_name>>
                              \o (IF with_synonyms THEN column_synonyms ELSE <<>>),
                              all_content), "smart_label_text", 6,
                   Found("", "smart_text", 0))
      [] OTHER ->
           SmartAuto(unit, column_name,
                     <<column_name>> \o (IF with_synonyms THEN column_synonyms ELSE <<>>),
                     all_content))

smart_search_column(unit, column_name, extract_type, with_synonyms) ==
    SmartTyped(unit, column_name, extract_type, with_synonyms, SearchContent(unit),
               IF with_synonyms THEN get_synonyms(column_name) ELSE <<column_name>>)

---------------------------------------------------------------------------
(* RecordBuilder: email_to_record                                           *)

\* extract_email_fields: the standard names and the unit field each one reads
StandardFieldOf == <<
    <<"Subject", "subject">>, <<"From", "from">>, <<"To", "to">>, <<"Date", "date">>,
    <<"Body", "body">>, <<"Attachments", "attachments">>,
    <<"subject", "subject">>, <<"from", "from">>, <<"to", "to">>, <<"date", "date">>,
    <<"body", "body">>, <<"attachments", "attachments">>,
    <<"Sender", "from">>, <<"sender", "from">>, <<"From Address", "from">>,
    <<"Recipient", "to">>, <<"recipient", "to">>, <<"To Address", "to">>,
    <<"Received", "date">>, <<"received", "date">>, <<"Sent", "date">>, <<"sent", "date">>,
    <<"Message", "body">>, <<"message", "body">>, <<"Content", "body">>,
    <<"content", "body">>, <<"Email Body", "body">> >>
extract_email_fields(unit) ==
    [i \in 1..Len(StandardFieldOf) |->
        <<StandardFieldOf[i][1],
          IF StandardFieldOf[i][2] = "attachments" THEN join("; ", Attachments(unit))
          ELSE Field(unit, StandardFieldOf[i][2])>>]

\* the inner loop over col_synonyms: some synonym equals, contains or is contained in key
SynonymHit(key, col_synonyms) ==
    \E i \in 1..Len(col_synonyms) :
        LET syn == lower(col_synonyms[i]) IN
        lower(key) = syn \/ In(syn, lower(key)) \/ In(lower(key), syn)

\* str() of a list of strings and of a list of dicts of strings (no quote characters
\* inside); the empty list, which is falsy, is ""
ReprStrings(q) == [i \in 1..Len(q) |-> "'" \o q[i] \o "'"]
ReprDict(d) == "{" \o join(", ", [i \in 1..Len(d) |->
                                     "'" \o d[i][1] \o "': '" \o d[i][2] \o "'"]) \o "}"
ListKeys == {"attachments", "attachment_text"}
\* email_data.get(key, "") of the k-th key as the text the record would hold
DirectText(unit, k) ==
    LET key == unit[k][1]
        v == unit[k][2]
    IN IF key \in ListKeys
       THEN (IF v = <<>> THEN "" ELSE "[" \o join(", ", ReprStrings(v)) \o "]")
       ELSE IF key = "excel_rows"
       THEN (IF v = <<>> THEN ""
             ELSE "[" \o join(", ", [i \in 1..Len(v) |-> ReprDict(v[i])]) \o "]")
       ELSE v

\* the scan of email_data.keys() from position k: <<direct_value, matched_key>>;
\* None is "" for both
RECURSIVE ScanKeys(_, _, _, _, _, _)
ScanKeys(unit, k, col_name, with_synonyms, direct_value, matched_key) ==
    IF k > Len(unit) THEN <<direct_value, matched_key>>
    ELSE LET key == unit[k][1] IN
         IF lower(key) = lower(col_name) \/ key = col_name
         THEN <<DirectText(unit, k), key>>
         ELSE IF ~with_synonyms
         THEN ScanKeys(unit, k + 1, col_name, with_synonyms, direct_value, matched_key)
         ELSE IF columns_match(key, col_name)
         THEN <<DirectText(unit, k), key>>
         ELSE IF SynonymHit(key, get_synonyms(col_name))
         THEN (IF unit[k][2] # "" THEN <<DirectText(unit, k), key>>
               ELSE ScanKeys(unit, k + 1, col_name, with_synonyms, unit[k][2], key))
         ELSE IF direct_value # "" THEN <<direct_value, matched_key>>
         ELSE ScanKeys(unit, k + 1, col_name, with_synonyms, direct_value, matched_key)

DirectScan(unit, col_name, with_synonyms) ==
    ScanKeys(unit, 1, col_name, with_synonyms, "", "")

ColName(col) == RGet(col, "name", RGet(col, "header", ""))
ColType(col) == RGet(col, "extract_type", RGet(col, "type", "auto"))

\* Placeholder for optional AI assistance: returns no value
_ai_assist(unit, column_name, extract_type) == Found("", "ai_assist", 0)

Explanation(matched, match_type, matched_term, confidence, source) ==
    [matched |-> matched, match_type |-> match_type, matched_term |-> matched_term,
     confidence |-> confidence, source |-> source]

\* the smart step gone wrong: the column reported as matched whatever was found
SmartResultAlwaysMatched(smart, ai, with_ai, threshold, col_name) ==
    <<smart.value,
      Explanation(TRUE, smart.meta.source, col_name, smart.meta.confidence,
                  smart.meta.source)>>
\* the smart value, replaced by the AI value when the assist is asked and answers
SmartResult(smart, ai, with_ai, threshold, col_name) ==
    LET taken == with_ai /\ threshold # 0 /\ smart.meta.confidence < threshold
                 /\ ai.value # ""
        smart_source == IF taken THEN ai.meta.source ELSE smart.meta.source
    IN <<IF taken THEN ai.value ELSE smart.value,
         Explanation(IF taken THEN TRUE ELSE smart.value # "", smart_source, col_name,
                     IF taken THEN ai.meta.confidence ELSE smart.meta.confidence,
                     smart_source)>>
\* priority 4 of one column: smart search, then the optional AI assist;
\* <<value, explanation>>
SmartStep(unit, col_name, col_type, with_synonyms, with_ai, threshold) ==
    SmartResult(smart_search_column(unit, col_name, col_type, with_synonyms),
                _ai_assist(unit, col_name, col_type), with_ai, threshold, col_name)

\* priority 1: the value of the matched key, tagged exact or synonym
DirectResult(value, matched_key, col_name, source_tag) ==
    <<value, Explanation(TRUE, source_tag,
                         IF matched_key # "" THEN matched_key ELSE col_name,
                         _confidence(source_tag, TRUE), source_tag)>>
\* priorities 2 and 3: the value when it is not empty, else the later priorities
ValueOr(value, source, confidence, col_name, other) ==
    IF value # "" THEN <<value, Explanation(TRUE, source, col_name, confidence, source)>>
    ELSE other

\* one schema column resolved from the key scan: <<value, explanation>>, first success
\* in the order direct / synonym-direct, standard field, rule, smart search (smart is
\* the outcome of SmartStep for the column)
Resolved(unit, col_name, scan, rule_results, smart) ==
    IF scan[1] # "" /\ strip(scan[1]) # ""
    THEN DirectResult(strip(scan[1]), scan[2], col_name,
                      IF scan[2] # "" /\ lower(scan[2]) = lower(col_name)
                      THEN "direct" ELSE "synonym_direct")
    ELSE ValueOr(Get(extract_email_fields(unit), col_name, ""), "standard_field", 9,
                 col_name,
         ValueOr(Get(rule_results, col_name, ""), "rule", _confidence("rule", TRUE),
                 col_name, smart))
ResolveColumn(unit, col, rule_results, smart, with_synonyms) ==
    Resolved(unit, ColName(col), DirectScan(unit, ColName(col), with_synonyms),
             rule_results, smart)

\* record[col_name] and explanations[col_name] written for a resolved column
PutColumn(acc, col_name, r, with_explain) ==
    <<Put(acc[1], col_name, r[1]),
      IF with_explain THEN Put(acc[2], col_name, r[2]) ELSE acc[2]>>

\* the loop over schema["columns"] from the k-th; acc is <<record, explanations>>
RECURSIVE ColumnLoop(_, _, _, _, _, _, _, _)
ColumnLoop(unit, cols, k, rule_results, smart, with_explain, with_synonyms, acc) ==
    Eager(acc,
    IF k > Len(cols) THEN acc
    ELSE ColumnLoop(unit, cols, k + 1, rule_results, smart, with_explain, with_synonyms,
                    PutColumn(acc, ColName(cols[k]),
                              ResolveColumn(unit, cols[k], rule_results, smart[k],
                                            with_synonyms),
                              with_explain)))

\* the smart searches of email_to_record, one outcome per schema column
SmartColumns(unit, sch, with_synonyms, with_ai, threshold) ==
    Listed([k \in 1..Len(sch) |->
               SmartStep(unit, ColName(sch[k]), ColType(sch[k]), with_synonyms, with_ai,
                         threshold)])
\* the record built over the outcome ro of the rules, whose explanations it extends,
\* and the outcomes smart of the smart searches
RecordOver(unit, sch, ro, smart, with_explain, with_synonyms) ==
    ColumnLoop(unit, sch, 1, ro[1], smart, with_explain, with_synonyms, <<<<>>, ro[2]>>)
email_to_record(unit, sch, rs, with_explain, with_synonyms, with_ai, threshold) ==
    RecordOver(unit, sch, apply_keyword_rules_enhanced(unit, rs, with_explain),
               SmartColumns(unit, sch, with_synonyms, with_ai, threshold),
               with_explain, with_synonyms)

---------------------------------------------------------------------------
(* RecordExpander: expand_order_numbers_to_rows                             *)

OrderColumnNames == {"order", "work order", "wo", "wo number", "order number"}

\* the lowered name of the first order column, as the loop's col_name holds it
RECURSIVE FindOrderColumnLowered(_)
FindOrderColumnLowered(cols) ==
    IF cols = <<>> THEN ""
    ELSE IF lower(RGet(cols[1], "name", "")) \in OrderColumnNames
    THEN lower(RGet(cols[1], "name", ""))
    ELSE FindOrderColumnLowered(Tail(cols))

\* the name of the first schema column that is an order column, "" (None) if none
RECURSIVE FindOrderColumn(_)
FindOrderColumn(cols) ==
    IF cols = <<>> THEN ""
    ELSE IF lower(RGet(cols[1], "name", "")) \in OrderColumnNames
    THEN RGet(cols[1], "name", "")
    ELSE FindOrderColumn(Tail(cols))

\* table_patterns of the expander (re.IGNORECASE | re.MULTILINE)
OrderTablePatterns(order_column) == <<
    <<LitI(order_column), Sp0, Cls({":", "\t", "|"}, 1, 1), Sp0,
      Open, NCls({"\n", "\t", "|"}, 1, Inf), Close>>,
    <<LitI(order_column), Cls(Space, 1, Inf), Open, D(6, Inf), Close>> >>
\* the standalone patterns of strategy 2 (case-sensitive)
OrderBarePatterns == <<
    <<Bnd, Open, D(6, Inf), Close, Bnd>>,
    <<Bnd, Open, D(6, Inf), Cls(Space, 1, Inf), AZ(2, Inf), D(0, Inf), Close, Bnd>> >>

\* re.split(r'\s{2,}|\t|;', order_val)[0]
FirstOrderPart(order_val) ==
    BeforeMatch(order_val,
                search(<<Alt(<<<<Cls(Space, 2, Inf)>>, <<Lit("\t")>>, <<Lit(";")>>>>)>>,
                       order_val))

\* the matches of a pattern that pass the pattern's length test, cleaned
AtLeast(v, n) == IF v # "" /\ Len(v) >= n THEN <<v>> ELSE <<>>
RECURSIVE OrderTableValues(_)
OrderTableValues(matches) ==
    IF matches = <<>> THEN <<>>
    ELSE AtLeast(strip(FirstOrderPart(split(strip(matches[1]))[1])), 4)
         \o OrderTableValues(Tail(matches))
RECURSIVE OrderBareValues(_)
OrderBareValues(matches) ==
    IF matches = <<>> THEN <<>>
    ELSE AtLeast(strip(matches[1]), 6) \o OrderBareValues(Tail(matches))

\* the values the loop over the patterns appends, repeats included
RECURSIVE OrderTableLoop(_, _)
OrderTableLoop(patterns, all_content) ==
    IF patterns = <<>> THEN <<>>
    ELSE OrderTableValues(findall(patterns[1], all_content))
         \o OrderTableLoop(Tail(patterns), all_content)
RECURSIVE OrderBareLoop(_, _)
OrderBareLoop(patterns, all_content) ==
    IF patterns = <<>> THEN <<>>
    ELSE OrderBareValues(findall(patterns[1], all_content))
         \o OrderBareLoop(Tail(patterns), all_content)

\* strategy 2 runs only when strategy 1 found nothing
TableOrBare(table, all_content) ==
    IF table # <<>> THEN table ELSE OrderBareLoop(OrderBarePatterns, all_content)
\* order_numbers holds a value once ("not in order_numbers", dict.fromkeys)
OrderNumbersIn(order_column, all_content) ==
    Unique(TableOrBare(OrderTableLoop(OrderTablePatterns(order_column), all_content),
                       all_content))
\* the order numbers detected in the unit's free text, distinct, in order of detection
DetectOrderNumbers(unit, order_column) ==
    OrderNumbersIn(order_column,
                   Field(unit, "subject") \o "\n" \o Field(unit, "body") \o "\n"
                   \o join(" ", AttachmentText(unit)))

\* A piece of work of the expander is <<email_data, forced>>: the unit handed to
\* email_to_record and the <<column, value>> then written into its record (<<>>: none).

\* the units focused on each order number, the order number not forced into the record
FocusedUnitsNotForced(unit, order_column, order_numbers) ==
    IF Len(order_numbers) <= 1 THEN <<<<unit, <<>>>>>>
    ELSE [i \in 1..Len(order_numbers) |->
             <<Put(unit, "_focus_order", order_numbers[i]), <<>>>>]

\* zero or one order number: the unit as it is; several: the unit focused on each one,
\* the order number then forced into the record
FocusedUnits(unit, order_column, order_numbers) ==
    IF Len(order_numbers) <= 1 THEN <<<<unit, <<>>>>>>
    ELSE [i \in 1..Len(order_numbers) |->
             <<Put(unit, "_focus_order", order_numbers[i]),
               <<order_column, order_numbers[i]>>>>]

\* one unit per excel row, else the unit itself when the schema has no order column,
\* else the units of the detected order numbers
ExpandedUnits(unit, excel_rows, order_column) ==
    IF excel_rows # <<>>
    THEN [i \in 1..Len(excel_rows) |-> <<Update(unit, excel_rows[i]), <<>>>>]
    ELSE IF order_column = "" THEN <<<<unit, <<>>>>>>
    ELSE FocusedUnits(unit, order_column, DetectOrderNumbers(unit, order_column))

\* record[order_column] = order_num, where one is forced
Forced(r, forced) == IF forced = <<>> THEN r
                     ELSE <<Put(r[1], forced[1], forced[2]), r[2]>>

\* the units handed to email_to_record, each with what is then forced into its record
Work(unit, sch) ==
    Listed(ExpandedUnits(unit, Get(unit, "excel_rows", <<>>), FindOrderColumn(sch)))
\* the outcomes of the rules, and of the smart searches, for every piece of work
WorkRules(work, rs, with_explain) ==
    Listed([w \in 1..Len(work) |-> apply_keyword_rules_enhanced(work[w][1], rs, with_explain)])
WorkSmart(work, sch, with_synonyms, with_ai, threshold) ==
    Listed([w \in 1..Len(work) |->
               SmartColumns(work[w][1], sch, with_synonyms, with_ai, threshold)])
\* records.append((record, explanation)) for every piece of work
RecordLoop(work, sch, ros, smarts, with_explain, with_synonyms) ==
    Listed([w \in 1..Len(work) |->
               Forced(RecordOver(work[w][1], sch, ros[w], smarts[w], with_explain,
                                 with_synonyms), work[w][2])])
RecordsOf(work, sch, rs, with_explain, with_synonyms, with_ai, threshold) ==
    RecordLoop(work, sch, WorkRules(work, rs, with_explain),
               WorkSmart(work, sch, with_synonyms, with_ai, threshold),
               with_explain, with_synonyms)
expand_order_numbers_to_rows(unit, sch, rs, with_explain, with_synonyms, with_ai, threshold) ==
    RecordsOf(Work(unit, sch), sch, rs, with_explain, with_synonyms, with_ai, threshold)

---------------------------------------------------------------------------
(* TableMerger: merge_tables                                                *)

InternalColumns == {"_source", "_source_file", "_sheet", "_focus_order"}

\* sorted(list(S)) for a set of strings
RECURSIVE SortedStrings(_)
SortedStrings(S) ==
    IF S = {} THEN <<>>
    ELSE LET m == CHOOSE x \in S : \A y \in S \ {x} : StrLess(x, y)
         IN <<m>> \o SortedStrings(S \ {m})

AllColumns(records, columns) ==
    SortedStrings((UNION {KeySet(records[i]) : i \in 1..Len(records)}
                   \cup SeqToSet(columns)) \ InternalColumns)

\* the first element of q satisfying Test, "" (None) if none
FirstWhere(Test(_), q) ==
    IF \E i \in 1..Len(q) : Test(q[i])
    THEN q[MinOf({i \in 1..Len(q) : Test(q[i])})]
    ELSE ""

_find_index_column(index_col, available_columns) ==
    LET index_lower == lower(index_col)
        Direct(col) == lower(col) = index_lower
        Partial(col) == In(index_lower, lower(col)) \/ In(lower(col), index_lower)
        Synonym(col) == \E i \in 1..Len(get_synonyms(col)) :
                            lower(get_synonyms(col)[i]) = index_lower
    IN IF FirstWhere(Direct, available_columns) # ""
       THEN FirstWhere(Direct, available_columns)
       ELSE IF \E i \in 1..Len(available_columns) : Partial(available_columns[i])
       THEN FirstWhere(Partial, available_columns)
       ELSE FirstWhere(Synonym, available_columns)

\* the normalisation gone wrong: the record's own columns only, none added
NormalizedOwnKeys(record, all_columns) ==
    LET Kept(pair) == \E i \in 1..Len(all_columns) : all_columns[i] = pair[1]
    IN SelectSeq(record, Kept)
\* {col: record.get(col, "") for col in all_columns}
Normalized(record, all_columns) ==
    [i \in 1..Len(all_columns) |-> <<all_columns[i], Get(record, all_columns[i], "")>>]

NoIndexWords == {"", "none", "n/a", "null"}
\* the key of the group, the index value compared with the words as it is written
GroupKeyCaseSensitive(record, index_col_name) ==
    LET index_val == strip(Get(record, index_col_name, "")) IN
    IF index_val = "" \/ index_val \in NoIndexWords THEN "_no_index"
    ELSE index_val
\* the key of the group a record joins in _merge_by_index
GroupKey(record, index_col_name) ==
    LET index_val == strip(Get(record, index_col_name, "")) IN
    IF index_val = "" \/ lower(index_val) \in NoIndexWords THEN "_no_index"
    ELSE index_val

\* sum(1 for k, v in record.items() if v and str(v).strip())
FilledCount(record) == Cardinality({i \in 1..Len(record) : strip(record[i][2]) # ""})

\* the group left in the order of the input
InInputOrder(group) == group
\* the group ordered by record_scores.sort(reverse=True, key=filled_count): stable
ByCompleteness(group) ==
    LET n == Len(group)
        Before(i, j) == FilledCount(group[i]) > FilledCount(group[j])
                        \/ (FilledCount(group[i]) = FilledCount(group[j]) /\ i < j)
        Rank(i) == Cardinality({j \in 1..n : Before(j, i)}) + 1
    IN [k \in 1..n |-> group[CHOOSE i \in 1..n : Rank(i) = k]]

\* the loop over record_scores for one column: the first value of maximal trimmed length
RECURSIVE BestValue(_, _, _)
BestValue(scored, col, best_value) ==
    IF scored = <<>> THEN best_value
    ELSE LET value_str == strip(Get(scored[1], col, "")) IN
         BestValue(Tail(scored), col,
                   IF value_str # "" /\ Len(value_str) > Len(best_value)
                   THEN value_str ELSE best_value)

_merge_record_group(group, all_columns, index_col) ==
    LET scored == ByCompleteness(group)
        merged_record == [i \in 1..Len(all_columns) |->
                             <<all_columns[i], BestValue(scored, all_columns[i], "")>>]
        HasIndex(record) == strip(Get(record, index_col, "")) # ""
    IN IF Get(merged_record, index_col, "") = ""
          /\ \E i \in 1..Len(scored) : HasIndex(scored[i])
       THEN Put(merged_record, index_col,
                strip(Get(FirstWhere(HasIndex, scored), index_col, "")))
       ELSE merged_record

\* the keys of the dict "indexed", in insertion order
GroupKeys(records, index_col_name) ==
    Unique([i \in 1..Len(records) |-> GroupKey(records[i], index_col_name)])
\* indexed[key]: the records of one group, in input order
RECURSIVE GroupOf(_, _, _)
GroupOf(records, index_col_name, key) ==
    IF records = <<>> THEN <<>>
    ELSE (IF GroupKey(records[1], index_col_name) = key THEN <<records[1]>> ELSE <<>>)
         \o GroupOf(Tail(records), index_col_name, key)

RECURSIVE MergeGroups(_, _, _, _)
MergeGroups(keys, records, index_col_name, all_columns) ==
    IF keys = <<>> THEN <<>>
    ELSE LET group == GroupOf(records, index_col_name, keys[1])
             out == IF keys[1] = "_no_index"
                    THEN [i \in 1..Len(group) |-> Normalized(group[i], all_columns)]
                    ELSE IF Len(group) = 1
                    THEN <<Normalized(group[1], all_columns)>>
                    ELSE <<_merge_record_group(group, all_columns, index_col_name)>>
         IN out \o MergeGroups(Tail(keys), records, index_col_name, all_columns)

_merge_by_index(records, index_col_name, all_columns) ==
    MergeGroups(GroupKeys(records, index_col_name), records, index_col_name, all_columns)

\* index_col = "" is None, columns = <<>> is None
merge_tables(records, index_col, columns) ==
    IF records = <<>> THEN <<>>
    ELSE LET all_columns == AllColumns(records, columns)
             index_col_name == IF index_col = "" THEN ""
                               ELSE _find_index_column(index_col, all_columns)
         IN IF index_col_name # ""
            THEN _merge_by_index(records, index_col_name, all_columns)
            ELSE [i \in 1..Len(records) |-> Normalized(records[i], all_columns)]

---------------------------------------------------------------------------
(* TableMerger: fill_missing_columns_from_context; AIHelper;               *)
(* ExecutionEngine: _apply_ai_assist, _fill_and_merge_records,              *)
(* _job_email_to_table                                                      *)

\* the loop over schema_columns from the k-th: a column whose value is blank takes the
\* value smart_search_column finds in email_data, when that is not blank
RECURSIVE FillLoop(_, _, _, _, _)
FillLoop(filled_record, email_data, cols, k, with_synonyms) ==
    IF k > Len(cols) THEN filled_record
    ELSE LET col_name == RGet(cols[k], "name", "")
         IN IF strip(Get(filled_record, col_name, "")) # ""
            THEN FillLoop(filled_record, email_data, cols, k + 1, with_synonyms)
            ELSE LET value == smart_search_column(email_data, col_name, ColType(cols[k]),
                                                  with_synonyms).value
                 IN FillLoop(IF strip(value) # "" THEN Put(filled_record, col_name, value)
                             ELSE filled_record,
                             email_data, cols, k + 1, with_synonyms)
fill_missing_columns_from_context(record, email_data, cols, with_synonyms) ==
    FillLoop(record, email_data, cols, 1, with_synonyms)

\* An outcome of the request to the suggestion endpoint is a record with kind
\* "timeout", "error" (a failed request or status) or "payload", the last with data,
\* the JSON object of the response.
NoSuggestion == <<>>
\* AIHelper.suggest on that outcome: None unless the helper is configured, the request
\* succeeds and its payload carries a value
suggest(configured, reply) ==
    IF ~configured THEN NoSuggestion
    ELSE IF reply.kind # "payload" THEN NoSuggestion
    ELSE IF Get(reply.data, "value", "") = "" THEN NoSuggestion
    ELSE <<<<"value", Get(reply.data, "value", "")>>,
           <<"confidence", Get(reply.data, "confidence", 5)>>>>
\* the outcome of the request for a column
ReplyFor(replies, column) == Get(replies, column, [kind |-> "timeout"])

\* explanation[column].update({...}) with the suggestion
Suggested(meta, suggestion) ==
    [meta EXCEPT !.matched = TRUE, !.match_type = "ai_assist",
                 !.confidence = Get(suggestion, "confidence", 6),
                 !.source = "ai_assist"]
\* the loop gone wrong: a column without a suggestion ends it, the later columns
\* are not offered
RECURSIVE AssistLoopEndedByFailure(_, _, _, _, _, _)
AssistLoopEndedByFailure(pair, columns, k, threshold, configured, replies) ==
    IF k > Len(columns) THEN pair
    ELSE LET column == columns[k]
             suggestion == suggest(configured, ReplyFor(replies, column))
         IN IF Get(pair[2], column, <<>>).confidence >= threshold
            THEN AssistLoopEndedByFailure(pair, columns, k + 1, threshold, configured,
                                          replies)
            ELSE IF suggestion = NoSuggestion THEN pair
            ELSE AssistLoopEndedByFailure(
                     <<Put(pair[1], column, Get(suggestion, "value", "")),
                       Put(pair[2], column,
                           Suggested(Get(pair[2], column, <<>>), suggestion))>>,
                     columns, k + 1, threshold, configured, replies)
\* the loop over explanation.items() from the k-th; pair is <<record, explanation>>
RECURSIVE AssistLoop(_, _, _, _, _, _)
AssistLoop(pair, columns, k, threshold, configured, replies) ==
    IF k > Len(columns) THEN pair
    ELSE LET column == columns[k]
             suggestion == suggest(configured, ReplyFor(replies, column))
         IN IF Get(pair[2], column, <<>>).confidence >= threshold
               \/ suggestion = NoSuggestion
            THEN AssistLoop(pair, columns, k + 1, threshold, configured, replies)
            ELSE AssistLoop(<<Put(pair[1], column, Get(suggestion, "value", "")),
                              Put(pair[2], column,
                                  Suggested(Get(pair[2], column, <<>>), suggestion))>>,
                            columns, k + 1, threshold, configured, replies)
_apply_ai_assist(pair, threshold, configured, replies) ==
    IF ~configured THEN pair
    ELSE AssistLoop(pair, Keys(pair[2]), 1, threshold, configured, replies)

\* one email of the job: its records and explanations, AI-assisted when enabled
Assisted(pairs, ai_enabled, threshold, configured, replies) ==
    IF ai_enabled
    THEN Listed([w \in 1..Len(pairs) |->
                    _apply_ai_assist(pairs[w], threshold, configured, replies)])
    ELSE pairs

OrderKeys == <<"order", "Order", "work order", "Work Order">>
\* the record's value, trimmed, under the first of the order keys it holds a value for
OrderVal(record) ==
    FirstFound([k \in 1..Len(OrderKeys) |->
                   <<Get(record, OrderKeys[k], "") # "",
                     strip(Get(record, OrderKeys[k], ""))>>])
EmailText(email) ==
    Field(email, "subject") \o " " \o Field(email, "body") \o " "
    \o join(" ", AttachmentText(email))
\* the position of the email taken as the record's source: the first whose text
\* contains the record's order value, else the first email
SourceEmail(record, batch) ==
    LET order_val == OrderVal(record)
        holding == {e \in 1..Len(batch) : In(order_val, EmailText(batch[e]))}
    IN IF order_val # "" /\ holding # {} THEN MinOf(holding) ELSE 1
\* step 1 of _fill_and_merge_records: every record filled from its source email
FilledRecords(records, batch, cols, with_synonyms) ==
    Listed([r \in 1..Len(records) |->
               fill_missing_columns_from_context(
                   records[r], batch[SourceEmail(records[r], batch)], cols,
                   with_synonyms)])
SchemaColumnNames(cols) == [c \in 1..Len(cols) |-> RGet(cols[c], "name", "")]
_fill_and_merge_records(records, batch, cols, with_synonyms, index_col) ==
    IF records = <<>> THEN records
    ELSE merge_tables(FilledRecords(records, batch, cols, with_synonyms), index_col,
                      SchemaColumnNames(cols))

---------------------------------------------------------------------------
(* PatternLearner.analyze_records: Python floats are IEEE 754 binary64      *)
(* values; a non-negative one is m * 2^e with m a natural number of at most *)
(* 53 bits, held as its bits, least significant first                       *)

RECURSIVE BitsOf(_)
BitsOf(n) == IF n = 0 THEN <<>> ELSE <<n % 2>> \o BitsOf(n \div 2)
RECURSIVE NatOf(_)
NatOf(b) == IF b = <<>> THEN 0 ELSE b[1] + 2 * NatOf(Tail(b))
Zeros(k) == [i \in 1..k |-> 0]
Bit(b, i) == IF i <= Len(b) THEN b[i] ELSE 0
RECURSIVE AddFrom(_, _, _, _)
AddFrom(a, b, i, carry) ==
    IF i > Max(Len(a), Len(b)) THEN (IF carry = 1 THEN <<1>> ELSE <<>>)
    ELSE LET s == Bit(a, i) + Bit(b, i) + carry
         IN <<s % 2>> \o AddFrom(a, b, i + 1, s \div 2)
AddBits(a, b) == AddFrom(a, b, 1, 0)
RECURSIVE MulFrom(_, _, _)
MulFrom(a, b, i) ==
    IF i > Len(b) THEN <<>>
    ELSE IF b[i] = 1 THEN AddBits(Zeros(i - 1) \o a, MulFrom(a, b, i + 1))
    ELSE MulFrom(a, b, i + 1)
MulBits(a, b) == MulFrom(a, b, 1)
\* without its leading zeros
RECURSIVE Norm(_)
Norm(b) == IF b # <<>> /\ b[Len(b)] = 0 THEN Norm(SubSeq(b, 1, Len(b) - 1)) ELSE b

Double(m, e) == [m |-> m, e |-> e]
\* the exact value bits * 2^e rounded to 53 significant bits, ties to even
RoundToDouble(bits, e) ==
    LET b == Norm(bits)
        s == Len(b) - 53
    IN IF s <= 0 THEN Double(b, e)
       ELSE LET q == SubSeq(b, s + 1, Len(b))
                up == /\ b[s] = 1
                      /\ q[1] = 1 \/ \E i \in 1..(s - 1) : b[i] = 1
            IN Double(IF up THEN AddBits(q, <<1>>) ELSE q, e + s)
\* n * d for an int n and a float d, and x + y for two floats
TimesDouble(n, d) == RoundToDouble(MulBits(d.m, BitsOf(n)), d.e)
PlusDouble(x, y) ==
    LET e == Min(x.e, y.e)
    IN RoundToDouble(AddBits(Zeros(x.e - e) \o x.m, Zeros(y.e - e) \o y.m), e)
\* int(x): the float truncated to an integer
int(x) == IF x.e >= 0 THEN NatOf(Zeros(x.e) \o x.m)
          ELSE IF 0 - x.e >= Len(x.m) THEN 0
          ELSE NatOf(SubSeq(x.m, 1 - x.e, Len(x.m)))

\* the literals 0.7 = 0x1.6666666666666p-1 and 0.3 = 0x1.3333333333333p-2
PointSeven ==
    Double(<<0, 1, 1, 0, 0, 1, 1, 0, 0, 1, 1, 0, 0, 1, 1, 0, 0, 1,
             1, 0, 0, 1, 1, 0, 0, 1, 1, 0, 0, 1, 1, 0, 0, 1, 1, 0,
             0, 1, 1, 0, 0, 1, 1, 0, 0, 1, 1, 0, 0, 1, 1, 0, 1>>, 0 - 53)
PointThree ==
    Double(<<1, 1, 0, 0, 1, 1, 0, 0, 1, 1, 0, 0, 1, 1, 0, 0, 1, 1,
             0, 0, 1, 1, 0, 0, 1, 1, 0, 0, 1, 1, 0, 0, 1, 1, 0, 0,
             1, 1, 0, 0, 1, 1, 0, 0, 1, 1, 0, 0, 1, 1, 0, 0, 1>>, 0 - 54)
\* int((current_conf * 0.7) + (count * 0.3))
Weighted(current_conf, count) ==
    int(PlusDouble(TimesDouble(current_conf, PointSeven), TimesDouble(count, PointThree)))

\* self.pattern_types, in the order of the dict
PatternTypes == <<
    <<"work_order", <<"order", "work order", "wo", "wo number">>>>,
    <<"equipment", <<"equipment", "equip", "eq", "equipment id">>>>,
    <<"order_type", <<"order type", "type", "order type code">>>>,
    <<"building", <<"building", "bldg">>>>,
    <<"room", <<"room">>>> >>
\* the first pattern type with a keyword in the column name, "" without one
PatternTypeOf(col_name) ==
    LET hits == {i \in 1..Len(PatternTypes) :
                    \E k \in 1..Len(PatternTypes[i][2]) :
                        In(PatternTypes[i][2][k], col_name)}
    IN IF hits = {} THEN "" ELSE PatternTypes[MinOf(hits)][1]
\* column_types.get(col_name_lower): the pattern type of a schema column of that name
ColumnPatternType(cols, col_name_lower) ==
    IF \E c \in 1..Len(cols) : lower(RGet(cols[c], "name", "")) = col_name_lower
    THEN PatternTypeOf(col_name_lower) ELSE ""

\* r'\b(\d{6,})\b', r'\b(\d{6,}\s*[A-Z]{2,}\d*)\b', r'\b([A-Z]{2,}\d{3,})\b'
_extract_numbers_from_value(value) ==
    findall(<<Bnd, Open, D(6, Inf), Close, Bnd>>, value)
    \o findall(<<Bnd, Open, D(6, Inf), Sp0, AZ(2, Inf), D(0, Inf), Close, Bnd>>, value)
    \o findall(<<Bnd, Open, AZ(2, Inf), D(3, Inf), Close, Bnd>>, value)
\* the class of a number by its leading digit or its letter prefix, "" for None
_classify_number_pattern(number) ==
    LET letter_match == M(<<AZ(2, Inf)>>, number, 1, <<0, 0>>)
    IN IF At(number, 1) \in {"1", "2", "3", "4"} THEN At(number, 1) \o "000#"
       ELSE IF letter_match.ok THEN Slice(number, 1, letter_match.end - 1) \o "#"
       ELSE ""

\* the <<pattern, pattern_type>> of every number of a value that has a class
ValueObservations(value, pattern_type) ==
    LET numbers == _extract_numbers_from_value(value)
        Classified(num) == _classify_number_pattern(num) # ""
    IN [n \in 1..Len(SelectSeq(numbers, Classified)) |->
           <<_classify_number_pattern(SelectSeq(numbers, Classified)[n]), pattern_type>>]
\* the loops over the records and their items
Observations(recs, cols) ==
    Flatten([r \in 1..Len(recs) |->
        Flatten([k \in 1..Len(recs[r]) |->
            IF recs[r][k][2] = "" \/ ColumnPatternType(cols, lower(recs[r][k][1])) = ""
            THEN <<>>
            ELSE ValueObservations(recs[r][k][2],
                                   ColumnPatternType(cols, lower(recs[r][k][1])))])])
\* number_patterns[pattern][pattern_type] += 1 for the observations from the k-th
RECURSIVE CountLoop(_, _, _)
CountLoop(obs, k, number_patterns) ==
    IF k > Len(obs) THEN number_patterns
    ELSE LET type_counts == Get(number_patterns, obs[k][1], <<>>)
         IN CountLoop(obs, k + 1,
                      Put(number_patterns, obs[k][1],
                          Put(type_counts, obs[k][2], Get(type_counts, obs[k][2], 0) + 1)))
\* the loop over type_counts.items() from the k-th, on the stored weights of a pattern
RECURSIVE TypeLoop(_, _, _)
TypeLoop(stored, type_counts, k) ==
    IF k > Len(type_counts) THEN stored
    ELSE TypeLoop(Put(stored, type_counts[k][1],
                      Weighted(Get(stored, type_counts[k][1], 0), type_counts[k][2])),
                  type_counts, k + 1)
\* the loop over number_patterns.items() from the k-th
RECURSIVE UpdateLoop(_, _, _)
UpdateLoop(stored, number_patterns, k) ==
    IF k > Len(number_patterns) THEN stored
    ELSE UpdateLoop(Put(stored, number_patterns[k][1],
                        TypeLoop(Get(stored, number_patterns[k][1], <<>>),
                                 number_patterns[k][2], 1)),
                    number_patterns, k + 1)
\* analyze_records(records, schema_columns): self.patterns["number_patterns"] after it
analyze_records(stored, recs, cols) ==
    UpdateLoop(stored, CountLoop(Observations(recs, cols), 1, <<>>), 1)

\* json.dump(self.patterns, f): the chunks written, one after the other: the opening
\* of the document, the entries of the table, the closing
Dumped(stored) == <<<<"{">>>> \o stored \o <<<<"}">>>>
\* json.load(f) returns: the text is a complete document
Loads(content) ==
    /\ Len(content) >= 2
    /\ Len(content[1]) = 1 /\ content[1][1] = "{"
    /\ Len(content[Len(content)]) = 1 /\ content[Len(content)][1] = "}"
\* the cache file: whether it exists, and the chunks it holds
Cache(exists, content) == [exists |-> exists, content |-> content]
\* _load_patterns(): the table of the file, the empty table when there is no file or
\* json.load raises
_load_patterns(file) ==
    IF file.exists /\ Loads(file.content)
    THEN SubSeq(file.content, 2, Len(file.content) - 1) ELSE <<>>

---------------------------------------------------------------------------
(* append_to_master: append_rows and _align_row                            *)

\* _align_row(row, source_headers, target_headers): each cell of the row under the
\* first target position of its header, the last cell of a repeated header winning
_align_row(row, source_headers, target_headers) ==
    [t \in 1..Len(target_headers) |->
        LET cells == {i \in 1..Len(source_headers) :
                         /\ i <= Len(row)
                         /\ source_headers[i] = target_headers[t]
                         /\ IndexOf(target_headers, target_headers[t]) = t}
        IN IF cells = {} THEN "" ELSE row[MaxOf(cells)]]
\* append_rows(existing_headers, existing_rows, new_headers, new_rows,
\*             deduplicate_column): <<merged_headers, result_rows>>; None is ""
append_rows(existing_headers, existing_rows, new_headers, new_rows, deduplicate_column) ==
    LET Added(h) == ~\E i \in 1..Len(existing_headers) : existing_headers[i] = h
        merged_headers == existing_headers \o SelectSeq(Unique(new_headers), Added)
        aligned == [r \in 1..Len(existing_rows) |->
                       _align_row(existing_rows[r], existing_headers, merged_headers)]
        deduplicate == /\ deduplicate_column # ""
                       /\ \E i \in 1..Len(merged_headers) :
                              merged_headers[i] = deduplicate_column
        col_idx == IndexOf(merged_headers, deduplicate_column)
        existing_values == {aligned[r][col_idx] : r \in 1..Len(aligned)}
        new_col_idx == IF \E i \in 1..Len(new_headers) : new_headers[i] = deduplicate_column
                       THEN IndexOf(new_headers, deduplicate_column) ELSE 0
        Kept(row) == \/ ~deduplicate
                     \/ new_col_idx = 0 \/ new_col_idx > Len(row)
                     \/ row[new_col_idx] \notin existing_values
        kept_rows == SelectSeq(new_rows, Kept)
    IN <<merged_headers,
         aligned \o [r \in 1..Len(kept_rows) |->
                        _align_row(kept_rows[r], new_headers, merged_headers)]>>

---------------------------------------------------------------------------
(* The calls as actions                                                     *)

MaxRules == 3
MaxRecords == 2
MaxKeys == 2

\* all sequences of at most n elements of S
RECURSIVE SeqsUpTo(_, _)
SeqsUpTo(S, n) ==
    IF n = 0 THEN {<<>>}
    ELSE LET shorter == SeqsUpTo(S, n - 1) IN
         shorter \cup {Append(q, x) : q \in {r \in shorter : Len(r) = n - 1}, x \in S}

\* the variables of the calls a specification does not make
NoRules == rule_out = <<>> /\ rule_order = <<>>
NoBuild == schema = <<>> /\ explain = FALSE /\ use_synonyms = TRUE /\ use_ai = FALSE
           /\ ai_threshold = 0 /\ results = <<>>
NoMerge == all_records = <<>> /\ index_column = "" /\ schema_columns = <<>>
           /\ merged = <<>>
NoEngine == explanations = <<>> /\ ai_replies = <<>> /\ ai_configured = FALSE
NoResolver == config = <<>> /\ synonyms = <<>> /\ call = <<>>
NoLearner == cache = <<>> /\ learned = <<>> /\ analyzed = <<>>
NoMaster == master = <<>> /\ appended = <<>>
NoSide == NoResolver /\ NoLearner /\ NoMaster

\* ---- RuleEngine ----
RuleUnits == {
    <<<<"subject", "overdue invoice">>>>,
    <<<<"subject", "Refund overdue">>, <<"body", "invoice attached asap">>>>,
    <<<<"subject", "hello">>, <<"body", "nothing here">>>> }
RulePool == {
    [column |-> "Billing", keywords |-> <<"refund">>, value |-> "Refund", priority |-> 1],
    [column |-> "Billing", keywords |-> <<"invoice">>, value |-> "Invoice"],
    [column |-> "Billing", regex |-> "overdue", value |-> "Late", priority |-> 1,
     unmatched_value |-> "none"],
    [column |-> "Urgent", keywords |-> <<"asap">>] }

InitRules ==
    /\ pc = "start"
    /\ emails \in {<<u>> : u \in RuleUnits}
    /\ rules \in SeqsUpTo(RulePool, MaxRules)
    /\ NoRules /\ NoBuild /\ NoMerge /\ NoEngine /\ NoSide

\* apply_keyword_rules_enhanced(email_data, rules, explain)
ApplyKeywordRules ==
    /\ pc = "start"
    /\ pc' = "rules"
    /\ rule_order' = SortPositions(rules, 1..Len(rules))
    /\ rule_out' = apply_keyword_rules_enhanced(emails[1], rules, explain)
    /\ UNCHANGED <<emails, schema, rules, explain, use_synonyms, use_ai, ai_threshold,
                   results, all_records, index_column, schema_columns, merged,
                   explanations, ai_replies, ai_configured, side_vars>>

NextRules == ApplyKeywordRules
SpecRules == InitRules /\ [][NextRules]_vars

\* the rules at the positions of `rules` that target column c
Targeting(c) == {i \in 1..Len(rules) : RuleColumn(rules[i]) = c}
TargetedColumns == {RuleColumn(rules[i]) : i \in 1..Len(rules)}
Priority(i) == RGet(rules[i], "priority", 0)
Matches(i) == RuleMatch(emails[1], rules[i]).matched
\* position i comes before position j in descending priority, then declaration order
Precedes(i, j) == Priority(i) > Priority(j) \/ (Priority(i) = Priority(j) /\ i < j)
FirstOf(S) == CHOOSE i \in S : \A j \in S \ {i} : Precedes(i, j)

\* where the rule at position i is declared: a rule repeated in the list is declared
\* where it first stands
Declared(i) == IndexOf(rules, rules[i])

C7_FirstMatchWins ==
    pc = "rules" =>
        \A c \in TargetedColumns :
            LET hits == {i \in Targeting(c) : Matches(i)} IN
            IF hits # {}
            THEN Get(rule_out[1], c, "") = RGet(rules[FirstOf(hits)], "value", "Yes")
            ELSE \E i \in Targeting(c) :
                     Get(rule_out[1], c, "") = RGet(rules[i], "unmatched_value", "")

\* ---- RecordBuilder and RecordExpander ----

\* all orders in which the elements of a finite set can stand
Orderings(S) == {q \in [1..Cardinality(S) -> S] : \A i, j \in 1..Cardinality(S) :
                                                      i # j => q[i] # q[j]}
\* the dicts with at most n keys made of the key-value pairs of P, keys in any order
Dicts(P, n) ==
    UNION {Orderings(Q) : Q \in {R \in SUBSET P :
                                    /\ Cardinality(R) <= n
                                    /\ \A a, b \in R : a # b => a[1] # b[1]}}

\* the job's loop over its units has reached the next one
Pending == Len(results) < Len(emails)

\* the call gone wrong: the rule list sorted in place, left reordered for the caller
EmailToRecordSortingInPlace ==
    /\ pc \in {"start", "record"}
    /\ Pending
    /\ pc' = "record"
    /\ rules' = sorted_rules(rules)
    /\ results' = Append(results,
                         <<email_to_record(emails[Len(results) + 1], schema, rules,
                                           explain, use_synonyms, use_ai, ai_threshold)>>)
    /\ UNCHANGED <<emails, schema, explain, use_synonyms, use_ai, ai_threshold,
                   rule_out, rule_order, all_records, index_column, schema_columns,
                   merged, explanations, ai_replies, ai_configured, side_vars>>

\* email_to_record(email_data, schema, rules, explain, use_synonyms, use_ai, ai_threshold):
\* the outcome of the rules and of the smart searches, then the record over them
EmailToRecord ==
    /\ pc \in {"start", "record"}
    /\ Pending
    /\ pc' = "record"
    /\ \E unit \in {emails[Len(results) + 1]} :
       \E ro \in {apply_keyword_rules_enhanced(unit, rules, explain)} :
       \E smart \in {SmartColumns(unit, schema, use_synonyms, use_ai, ai_threshold)} :
           results' = Append(results,
                             <<RecordOver(unit, schema, ro, smart, explain, use_synonyms)>>)
    /\ UNCHANGED <<emails, schema, rules, explain, use_synonyms, use_ai, ai_threshold,
                   rule_out, rule_order, all_records, index_column, schema_columns,
                   merged, explanations, ai_replies, ai_configured, side_vars>>

\* expand_order_numbers_to_rows(email_data, schema, rules, explain, use_synonyms,
\*                              use_ai, ai_threshold): the pieces of work, the outcome
\* of the rules and of the smart searches for each, then the records over them
ExpandOrderNumbersToRows ==
    /\ pc \in {"start", "expand"}
    /\ Pending
    /\ pc' = "expand"
    /\ \E work \in {Work(emails[Len(results) + 1], schema)} :
       \E ros \in {WorkRules(work, rules, explain)} :
       \E smarts \in {WorkSmart(work, schema, use_synonyms, use_ai, ai_threshold)} :
           results' = Append(results,
                             RecordLoop(work, schema, ros, smarts, explain, use_synonyms))
    /\ UNCHANGED <<emails, schema, rules, explain, use_synonyms, use_ai, ai_threshold,
                   rule_out, rule_order, all_records, index_column, schema_columns,
                   merged, explanations, ai_replies, ai_configured, side_vars>>

\* data-row keys of a unit, as a spreadsheet row brings them
RowPairs == {<<"Order", "123">>, <<"Order", "">>, <<"Order Number", "777">>,
             <<"Order Number", "">>, <<"order no", " 55 ">>}
BuildText == <<<<"subject", "overdue invoice">>>>
BuildUnits == {BuildText \o row : row \in Dicts(RowPairs, MaxKeys)}
BuildSchemas == {
    <<[name |-> "Order", extract_type |-> "number"]>>,
    <<[name |-> "Order Number"], [name |-> "Order", type |-> "text"]>> }
BuildRules == {
    <<>>,
    <<[column |-> "Order", keywords |-> <<"invoice">>],
      [column |-> "Order Number", keywords |-> <<"invoice">>, priority |-> 1]>> }
\* two units of one job, resolved against the same one-column schema
PairUnits == {<<<<"When Due", "Friday">>>>, <<<<"date", "2024-01-01">>>>,
              <<<<"When", "now">>>>, <<<<"body", "nothing">>>>,
              <<<<"subject", "see when">>>>}
PairSchema == <<[name |-> "When"]>>
PairRules == <<[column |-> "When", keywords |-> <<"see">>, value |-> "Soon"]>>
\* a unit whose body carries one "Label: value" line per column of its schema
LabelUnit == <<<<"body", "Work Order: 4000390042\nEquipment: 300020888">>>>
LabelSchema == <<[name |-> "Work Order"], [name |-> "Equipment"]>>
\* units for a rule that sets its column both when it matches and when it does not
BillingUnits == {<<<<"subject", "Re: overdue invoice">>>>, <<<<"subject", "Lunch">>>>}
BillingSchema == <<[name |-> "Billing"]>>
BillingRules == <<[column |-> "Billing", keywords |-> <<"invoice", "payment">>,
                   value |-> "Yes", unmatched_value |-> "No"]>>

InitBuild ==
    /\ pc = "start"
    /\ \/ /\ emails \in {<<u>> : u \in BuildUnits}
          /\ schema \in BuildSchemas
          /\ rules \in BuildRules
          /\ use_synonyms \in BOOLEAN
       \/ /\ emails \in {<<u, v>> : u \in PairUnits, v \in PairUnits}
          /\ schema = PairSchema
          /\ rules = PairRules
          /\ use_synonyms = TRUE
       \/ /\ emails = <<LabelUnit>>
          /\ schema = LabelSchema
          /\ rules = <<>>
          /\ use_synonyms \in BOOLEAN
       \/ /\ emails \in {<<u>> : u \in BillingUnits}
          /\ schema = BillingSchema
          /\ rules = BillingRules
          /\ use_synonyms \in BOOLEAN
    /\ explain = TRUE /\ use_ai = FALSE /\ ai_threshold = 0 /\ results = <<>>
    /\ NoRules /\ NoMerge /\ NoEngine /\ NoSide

NextBuild == EmailToRecord
SpecBuild == InitBuild /\ [][NextBuild]_vars

ExpandBodies == {"Order: 4000390042 ZM03", "4000111222 and 4000111333 pending",
                 "no numbers here"}
ExpandRows == {<<>>, <<<<"Order", "999">>>>}
ExcelUnit == <<<<"body", "4000111222 and 4000111333 pending">>,
               <<"excel_rows", <<<<<<"Order", "9">>>>,
                                 <<<<"Status", "late">>, <<"Order", "">>>>>>>>>>
OverriddenUnit == <<<<"Order", "999">>, <<"subject", "Orders">>,
                    <<"excel_rows", <<<<<<"Status", "late">>>>,
                                      <<<<"Status", "">>, <<"Order", "7">>>>>>>>>>
ExpandUnits == {<<<<"subject", "Orders">>, <<"body", b>>>> \o row :
                    b \in ExpandBodies, row \in ExpandRows}
               \cup {ExcelUnit, OverriddenUnit}
ExpandSchemas == {
    <<[name |-> "Order"], [name |-> "Status", extract_type |-> "text"]>>,
    <<[name |-> "Subject"], [name |-> "WO Number", type |-> "number"]>> }
ExpandRules == {<<>>,
                <<[column |-> "Status", keywords |-> <<"pending">>, value |-> "Waiting"]>>}
\* a unit with two order numbers, for a schema with a second column named after orders
TwoNumbersUnit == <<<<"subject", "Orders">>,
                    <<"body", "4000111222 and 4000111333 pending">>>>
OrderTypeSchema == <<[name |-> "Order"], [name |-> "Order Type"]>>

InitExpand ==
    /\ pc = "start"
    /\ \/ /\ emails \in {<<u>> : u \in ExpandUnits}
          /\ schema \in ExpandSchemas
          /\ rules \in ExpandRules
       \/ /\ emails = <<TwoNumbersUnit>>
          /\ schema = OrderTypeSchema
          /\ rules = <<>>
    /\ use_synonyms \in BOOLEAN
    /\ explain = TRUE /\ use_ai = FALSE /\ ai_threshold = 0 /\ results = <<>>
    /\ NoRules /\ NoMerge /\ NoEngine /\ NoSide

NextExpand == EmailToRecord \/ ExpandOrderNumbersToRows
SpecExpand == InitExpand /\ [][NextExpand]_vars

\* the record and the explanations of the m-th row returned for the k-th unit
RecordOf(k, m) == results[k][m][1]
ExplanationOf(k, m) == results[k][m][2]
ColumnNames == [c \in 1..Len(schema) |-> ColName(schema[c])]
Built == pc \in {"record", "expand"}

\* the unit's sub-rows are absent and the schema declares an order column
Expandable(unit) == Get(unit, "excel_rows", <<>>) = <<>> /\ FindOrderColumn(schema) # ""
\* the order numbers detected in the free text of the unit
Detected(unit) == DetectOrderNumbers(unit, FindOrderColumn(schema))
\* the order-column values of the records returned for the k-th unit, in order
OrderValues(k) ==
    [m \in 1..Len(results[k]) |-> Get(RecordOf(k, m), FindOrderColumn(schema), "")]

\* C1: every record returned by email_to_record and by expand_order_numbers_to_rows
\* has exactly the schema's column names as its keys: one entry per schema column and
\* no other key, also after the detected order number is force-written.
C1_RecordKeysAreSchemaColumns ==
    Built =>
        \A k \in 1..Len(results) : \A m \in 1..Len(results[k]) :
            /\ KeySet(RecordOf(k, m)) = SeqToSet(ColumnNames)
            /\ Len(RecordOf(k, m)) = Len(schema)

\* C1 witness: an expansion into several records whose order column was force-written
\* over a different value of the unit's own "Order" key, next to a column set by a rule
C1_Witness ==
    /\ pc = "expand"
    /\ Len(results[1]) >= 2
    /\ Get(emails[1], "Order", "") = "999"
    /\ Get(RecordOf(1, 2), "Order", "") = Detected(emails[1])[2]
    /\ Has(ExplanationOf(1, 2), "Status")
    /\ Get(ExplanationOf(1, 2), "Status", <<>>).match_type = "rule"
    /\ Keys(RecordOf(1, 2)) = <<"Order", "Status">>

\* a rule of the list targets the column and matches the unit
RuleFires(unit, name) ==
    \E i \in 1..Len(rules) :
        RuleColumn(rules[i]) = name /\ RuleMatch(unit, rules[i]).matched

\* C2: a unit that holds a non-empty value under a key equal to the column name, with
\* a rule that targets the column and matches the unit, resolves the column to the
\* unit's value under that key, whatever other keys it has and in whatever order.
C2_DirectValuePrecedence ==
    pc = "record" =>
        \A k \in 1..Len(results) : \A c \in 1..Len(schema) :
            LET name == ColumnNames[c]
                unit == emails[k]
            IN (Get(unit, name, "") # "" /\ RuleFires(unit, name))
                   => Get(RecordOf(k, 1), name, "") \in
                          {Get(unit, name, ""), strip(Get(unit, name, ""))}

\* the column is a number column: extract_type "number", or in auto mode an id-like name
IsNumberColumn(col) ==
    \/ ColType(col) = "number"
    \/ ColType(col) = "auto" /\ AnyIn(NumberIndicators, strip(lower(ColName(col))))

\* C3: a column whose extract_type is "number", or whose name is id-like in auto mode,
\* never holds the literal "Yes" or "No" in the record, for any unit and any rule list.
C3_NonBooleanization ==
    pc = "record" =>
        \A k \in 1..Len(results) : \A c \in 1..Len(schema) :
            IsNumberColumn(schema[c])
                => Get(RecordOf(k, 1), ColumnNames[c], "") \notin {"Yes", "No"}

\* C5 as stated: with N >= 1 distinct order numbers detected, the expander returns
\* exactly N records whose order-column values are the N detected numbers, one each.
C5_ExpansionCompleteness ==
    pc = "expand" =>
        \A k \in 1..Len(results) :
            (Expandable(emails[k]) /\ Len(Detected(emails[k])) >= 1)
                => OrderValues(k) = Detected(emails[k])

\* C5 amended: with N >= 2 distinct order numbers detected, the expander returns
\* exactly N records whose order-column values are the N detected numbers in order of
\* detection, overriding what the record builder resolved; with N <= 1 it returns the
\* single record of an ordinary email_to_record call, nothing force-written.
C5_ExpansionOfSeveral ==
    pc = "expand" =>
        \A k \in 1..Len(results) :
            Expandable(emails[k]) =>
                IF Len(Detected(emails[k])) >= 2
                THEN OrderValues(k) = Detected(emails[k])
                ELSE results[k] = <<email_to_record(emails[k], schema, rules, explain,
                                                    use_synonyms, use_ai, ai_threshold)>>

\* C5 witness: two order numbers detected, two records, and the first record's order
\* column holds the detected number where the record builder alone resolves another
C5_Witness ==
    /\ pc = "expand"
    /\ Expandable(emails[1])
    /\ Len(Detected(emails[1])) = 2
    /\ Len(results[1]) = 2
    /\ OrderValues(1) = Detected(emails[1])
    /\ Get(email_to_record(Put(emails[1], "_focus_order", Detected(emails[1])[1]),
                           schema, rules, explain, use_synonyms, use_ai,
                           ai_threshold)[1],
           FindOrderColumn(schema), "") # Detected(emails[1])[1]

\* the rank of a resolution's source: direct, standard_field, rule, synonym_direct,
\* smart search (any TypeExtractor outcome), unresolved
SourceRank(e) ==
    CASE e.source = "direct" -> 1
      [] e.source = "standard_field" -> 2
      [] e.source = "rule" -> 3
      [] e.source = "synonym_direct" -> 4
      [] OTHER -> IF e.matched THEN 5 ELSE 6

\* C8: of two resolutions of a column in explain mode, the one whose source ranks
\* higher in direct, standard_field, rule, synonym_direct, smart search, unresolved
\* has a confidence greater than or equal to the other's.
C8_ConfidenceOrdering ==
    pc = "record" =>
        \A k, l \in 1..Len(results) : \A c \in 1..Len(schema) :
            LET first == Get(ExplanationOf(k, 1), ColumnNames[c], <<>>)
                second == Get(ExplanationOf(l, 1), ColumnNames[c], <<>>)
            IN SourceRank(first) < SourceRank(second)
                   => first.confidence >= second.confidence

\* the positions of the unit's populated keys that equal the column name
\* case-insensitively, and of those that match it only as a synonym or by containment
ExactKeys(unit, name) ==
    {i \in 1..Len(unit) : lower(unit[i][1]) = lower(name) /\ unit[i][2] # ""}
LooseKeys(unit, name) ==
    {i \in 1..Len(unit) :
        /\ lower(unit[i][1]) # lower(name) /\ unit[i][2] # ""
        /\ \/ columns_match(unit[i][1], name)
           \/ SynonymHit(unit[i][1], get_synonyms(name))}

\* C9: when a unit has a populated key equal to the column name (case-insensitively)
\* and another populated key matching the column only as a synonym or by containment,
\* the column takes the value of the exactly matching key with source "direct",
\* regardless of the order of the keys.
C9_ExactKeyPreferred ==
    (pc = "record" /\ use_synonyms) =>
        \A k \in 1..Len(results) : \A c \in 1..Len(schema) :
            LET name == ColumnNames[c]
                unit == emails[k]
            IN (ExactKeys(unit, name) # {} /\ LooseKeys(unit, name) # {})
                   => /\ \E i \in ExactKeys(unit, name) :
                             Get(RecordOf(k, 1), name, "") = strip(unit[i][2])
                      /\ Get(ExplanationOf(k, 1), name, <<>>).source = "direct"

\* ---- TableMerger ----

MergeRecords == {
    <<<<"Order", "A1">>, <<"Status", "ab">>, <<"Notes", "n">>>>,
    <<<<"Order", " A1 ">>, <<"Status", "cd">>>>,
    <<<<"Status", " long ">>, <<"Order", "A1">>, <<"_source", "mail">>>>,
    <<<<"Order", "">>, <<"Status", "x">>>>,
    <<<<"Order", " N/A">>, <<"Notes", "x ">>>>,
    <<<<"Order", "_no_index">>, <<"Status", "q">>>> }
\* batches of three records: two blank-like index values and one order of its own,
\* in every arrangement
MergeBatches ==
    [1..3 -> {<<<<"Order", "">>, <<"Status", "x">>>>,
              <<<<"Order", " N/A">>, <<"Notes", "x ">>>>,
              <<<<"Order", "A1">>, <<"Status", "ab">>, <<"Notes", "n">>>>}]
MergeIndexColumns == {"order", "wo", ""}
MergeSchemaColumns == <<"Order", "Status", "Due">>

InitMerge ==
    /\ pc = "start"
    /\ all_records \in SeqsUpTo(MergeRecords, MaxRecords) \cup MergeBatches
    /\ index_column \in MergeIndexColumns
    /\ schema_columns = MergeSchemaColumns
    /\ merged = <<>>
    /\ emails = <<>> /\ rules = <<>>
    /\ NoRules /\ NoBuild /\ NoEngine /\ NoSide

\* merge_tables(all_records, index_column, schema_columns)
MergeTables ==
    /\ pc = "start"
    /\ pc' = "merge"
    /\ merged' = merge_tables(all_records, index_column, schema_columns)
    /\ UNCHANGED <<emails, schema, rules, explain, use_synonyms, use_ai, ai_threshold,
                   rule_out, rule_order, results, all_records, index_column,
                   schema_columns, explanations, ai_replies, ai_configured, side_vars>>

NextMerge == MergeTables
SpecMerge == InitMerge /\ [][NextMerge]_vars

\* the index column merge_tables resolved, "" if none, and the output's columns
IndexName ==
    IF index_column = "" THEN ""
    ELSE _find_index_column(index_column, AllColumns(all_records, schema_columns))
OutColumns == AllColumns(all_records, schema_columns)
\* merge_tables has grouped the records by the resolved index column idx
Merging(idx) == pc = "merge" /\ all_records # <<>> /\ idx # ""
TrimmedIndex(record, idx) == strip(Get(record, idx, ""))
BlankLike(v) == lower(v) \in NoIndexWords
\* the input records whose trimmed index value is v, and the output records for v
Sharing(v, idx) == {i \in 1..Len(all_records) : TrimmedIndex(all_records[i], idx) = v}
EmittedFor(v, idx) == {m \in 1..Len(merged) : TrimmedIndex(merged[m], idx) = v}
\* the trimmed value of the i-th input record for a column
Trimmed(i, col) == strip(Get(all_records[i], col, ""))
\* of the records S, those holding a longest trimmed non-empty value for the column
Holders(S, col) ==
    {i \in S : Trimmed(i, col) # ""
               /\ \A j \in S : Len(Trimmed(j, col)) <= Len(Trimmed(i, col))}
\* of the records H, the one with the most non-empty fields, the earliest of those
MostComplete(H) ==
    CHOOSE i \in H : \A j \in H \ {i} :
        \/ FilledCount(all_records[i]) > FilledCount(all_records[j])
        \/ FilledCount(all_records[i]) = FilledCount(all_records[j]) /\ i < j
\* the value kept for the column: "" if no record of S has one, else the longest, and
\* among equally long ones that of the most complete record
KeptValue(S, col) ==
    IF Holders(S, col) = {} THEN "" ELSE Trimmed(MostComplete(Holders(S, col)), col)
\* exactly one output record for the index value v, every column the kept value
OneMerged(v, idx, cols) ==
    /\ Cardinality(EmittedFor(v, idx)) = 1
    /\ \A m \in EmittedFor(v, idx) :
           merged[m] = [c \in 1..Len(cols) |-> <<cols[c], KeptValue(Sharing(v, idx), cols[c])>>]

SameRecords(a, b) ==
    /\ Len(a) = Len(b)
    /\ \A i \in 1..Len(a) : Cardinality({j \in 1..Len(a) : a[j] = a[i]})
                            = Cardinality({j \in 1..Len(b) : b[j] = a[i]})

\* C10: records whose index value is blank, "n/a", "none" or "null" (trimmed,
\* case-insensitive) are never merged: the output holds one record per such input
\* record, in order, with exactly that record's own values, and the other output
\* records are those the other input records give by themselves.
C10_BlankIndexNeverMerged ==
    LET idx == IndexName
        cols == OutColumns
        blanks == {i \in 1..Len(all_records) :
                      BlankLike(TrimmedIndex(all_records[i], idx))}
        kept == {m \in 1..Len(merged) : BlankLike(TrimmedIndex(merged[m], idx))}
        own == Pick(all_records, blanks)
    IN Merging(idx) =>
           /\ Pick(merged, kept) = [k \in 1..Len(own) |-> Normalized(own[k], cols)]
           /\ SameRecords(Pick(merged, (1..Len(merged)) \ kept),
                          _merge_by_index(Pick(all_records,
                                               (1..Len(all_records)) \ blanks),
                                          idx, cols))

\* C10 witness: two records with the same blank-like index value written in capitals,
\* both in the output, a value of theirs left untrimmed
C10_Witness ==
    /\ Merging(IndexName)
    /\ Len(all_records) = 2 /\ Len(merged) = 2
    /\ \A i \in 1..2 : /\ TrimmedIndex(all_records[i], IndexName) = "N/A"
                       /\ merged[i] = Normalized(all_records[i], OutColumns)
    /\ \E c \in 1..Len(merged[1]) : merged[1][c][2] # strip(merged[1][c][2])


\* ---- C11: sub-row expansion keeps the parent's fields

\* the rows a unit carries
SubRows(unit) == Get(unit, "excel_rows", <<>>)
\* the parent's keys in the parent's order, each with the row's value where the row
\* defines the key and the parent's own value where it does not, then the keys only
\* the row defines, in the row's order
RowOverParent(parent, row) ==
    [j \in 1..Len(parent) |->
        <<parent[j][1],
          IF \E r \in 1..Len(row) : row[r][1] = parent[j][1]
          THEN row[CHOOSE r \in 1..Len(row) : row[r][1] = parent[j][1]][2]
          ELSE parent[j][2]>>]
    \o Pick(row, {r \in 1..Len(row) :
                     \A j \in 1..Len(parent) : parent[j][1] # row[r][1]})

\* the step expands a unit that carries sub-rows
ExpandsSubRows ==
    /\ pc' = "expand" /\ Len(results') = Len(results) + 1
    /\ SubRows(emails[Len(results')]) # <<>>

\* C11: for a unit carrying k sub-rows, expand_order_numbers_to_rows returns exactly k
\* records in sub-row order, the i-th being the record of email_to_record on the unit
\* that has the parent's keys plus sub-row i's keys, the sub-row's value on every key
\* both define and the parent's value on every other key; the parent unit is unchanged.
C11_SubRowsKeepParentFields ==
    [][ExpandsSubRows =>
          LET parent == emails[Len(results')]
              rows == SubRows(parent)
          IN /\ emails' = emails
             /\ results'[Len(results')] =
                    [i \in 1..Len(rows) |->
                        email_to_record(RowOverParent(parent, rows[i]), schema, rules,
                                        explain, use_synonyms, use_ai, ai_threshold)]]_vars

\* C11 witness: a unit with two sub-rows expanded into two records, the second sub-row
\* overriding the parent's Order and the first leaving it as the parent has it
C11_Witness ==
    /\ pc = "expand" /\ Len(results) = 1
    /\ Len(SubRows(emails[1])) = 2 /\ Len(results[1]) = 2
    /\ Get(emails[1], "Order", "") = "999"
    /\ Get(SubRows(emails[1])[2], "Order", "") = "7"
    /\ ~Has(SubRows(emails[1])[1], "Order")
    /\ Get(RecordOf(1, 1), "Order", "") = "999"
    /\ Get(RecordOf(1, 2), "Order", "") = "7"

\* ---- C12: the merged table is rectangular

\* the union of the schema columns and of all keys of all input records, minus the
\* internal marker columns
ExpectedColumns ==
    (SeqToSet(schema_columns)
     \cup UNION {{all_records[i][j][1] : j \in 1..Len(all_records[i])} :
                    i \in 1..Len(all_records)})
    \ {"_source", "_source_file", "_sheet", "_focus_order"}

\* the input records an output record comes from: those with its trimmed index value
\* when the records were grouped by the index column idx, else the one at its position
OriginsOf(m, idx) ==
    IF idx = "" THEN {m}
    ELSE {i \in 1..Len(all_records) :
             TrimmedIndex(all_records[i], idx) = TrimmedIndex(merged[m], idx)}

\* C12: every record merge_tables returns has exactly the same keys, the union of the
\* schema columns and of all keys of all input records minus the internal marker
\* columns, each once; a cell is "" unless an input record the output record comes
\* from defines it with that value; with or without an index column given or resolved.
C12_OutputIsRectangular ==
    (pc = "merge" /\ all_records # <<>>) =>
        LET idx == IndexName
        IN /\ merged # <<>>
           /\ \A m \in 1..Len(merged) :
                  /\ KeySet(merged[m]) = ExpectedColumns
                  /\ Len(merged[m]) = Cardinality(ExpectedColumns)
                  /\ \A c \in 1..Len(merged[m]) :
                         merged[m][c][2] # "" =>
                             \E i \in OriginsOf(m, idx) :
                                 /\ Has(all_records[i], merged[m][c][1])
                                 /\ strip(Get(all_records[i], merged[m][c][1], ""))
                                        = strip(merged[m][c][2])

\* C12 witness: two output records over an index column that was resolved, an input
\* record carrying a marker column, and a schema column no input defines left ""
C12_Witness ==
    /\ pc = "merge" /\ IndexName # "" /\ Len(merged) = 2
    /\ \E i \in 1..Len(all_records) : Has(all_records[i], "_source")
    /\ \A m \in 1..Len(merged) :
           /\ KeySet(merged[m]) = ExpectedColumns
           /\ Get(merged[m], "Due", "x") = ""
    /\ \E i \in 1..Len(all_records) : KeySet(all_records[i]) # KeySet(merged[1])

\* ---- ExecutionEngine: the email_to_table job ----

EngineSchema == <<[name |-> "Order"], [name |-> "Status", extract_type |-> "text"]>>
\* a plain unit with a labelled status, and a unit carrying two rows of one order
ProseUnit == <<<<"subject", "Orders">>, <<"body", "Status: delayed">>>>
RowsUnit == <<<<"excel_rows", <<<<<<"Order", "A1">>, <<"Status", "ok">>>>,
                                <<<<"Order", "A1">>, <<"Notes", "n">>>>>>>>>>
\* a unit with one row of an order, and a unit naming that order and another in prose
OneRowUnit == <<<<"excel_rows", <<<<<<"Order", "4000111222">>, <<"Status", "ok">>>>>>>>>>
TwoOrdersUnit == <<<<"body", "4000111222 late 4000111333\nStatus: pending">>>>
BareUnit == <<<<"subject", "Orders">>, <<"body", "no numbers here">>>>
KeyedUnit == <<<<"Order", "55">>, <<"body", "Status: open">>>>
EngineBatches == {<<ProseUnit, RowsUnit>>, <<OneRowUnit, TwoOrdersUnit>>, <<BareUnit>>,
                  <<KeyedUnit, BareUnit>>}

Payload(data) == [kind |-> "payload", data |-> data]
EngineReplies == {
    <<<<"Status", Payload(<<<<"value", "AI">>, <<"confidence", 15>>>>)>>,
      <<"Order", [kind |-> "timeout"]>>>>,
    <<<<"Status", Payload(<<>>)>>, <<"Order", Payload(<<<<"value", "77">>>>)>>>>,
    <<<<"Status", [kind |-> "error"]>>, <<"Order", [kind |-> "error"]>>>>,
    <<<<"Status", Payload(<<<<"value", "AI">>, <<"confidence", 9>>>>)>>,
      <<"Order", Payload(<<<<"value", "">>, <<"confidence", 3>>>>)>>>> }

InitEngine ==
    /\ pc = "start"
    /\ emails \in EngineBatches
    /\ schema = EngineSchema
    /\ rules = <<>>
    /\ explain \in BOOLEAN
    /\ use_synonyms = TRUE
    /\ ai_threshold = 4
    /\ \/ use_ai = FALSE /\ ai_configured \in BOOLEAN /\ ai_replies = <<>>
       \/ use_ai = TRUE /\ ai_configured = FALSE /\ ai_replies = <<>>
       \/ use_ai = TRUE /\ ai_configured = TRUE /\ ai_replies \in EngineReplies
    /\ index_column \in {"", "Order"}
    /\ schema_columns = SchemaColumnNames(schema)
    /\ results = <<>> /\ all_records = <<>> /\ merged = <<>> /\ explanations = <<>>
    /\ NoRules /\ NoSide

\* the records, and the explanations, of the pairs of all emails, in order
RecordsIn(pairs) == [r \in 1..Len(pairs) |-> pairs[r][1]]
ExplanationsIn(pairs) == [r \in 1..Len(pairs) |-> pairs[r][2]]

\* _job_email_to_table(emails, profile, explain): per email one record per table row,
\* else the records of expand_order_numbers_to_rows, each AI-assisted when enabled;
\* then _fill_and_merge_records
JobEmailToTable ==
    /\ pc = "start"
    /\ pc' = "job"
    /\ \E works \in {Listed([e \in 1..Len(emails) |-> Work(emails[e], schema)])} :
       \E ros \in {Listed([e \in 1..Len(emails) |->
                               WorkRules(works[e], rules, explain)])} :
       \E smarts \in {Listed([e \in 1..Len(emails) |->
                                  WorkSmart(works[e], schema, use_synonyms, use_ai,
                                            ai_threshold)])} :
       \E built \in {Listed([e \in 1..Len(emails) |->
                                 RecordLoop(works[e], schema, ros[e], smarts[e], explain,
                                            use_synonyms)])} :
       \E assisted \in {Listed([e \in 1..Len(emails) |->
                                    Assisted(built[e], use_ai /\ ai_configured,
                                             ai_threshold, ai_configured, ai_replies)])} :
       \E filled \in {FilledRecords(RecordsIn(Flatten(assisted)), emails, schema,
                                     use_synonyms)} :
           /\ results' = assisted
           /\ explanations' = IF explain THEN ExplanationsIn(Flatten(assisted)) ELSE <<>>
           /\ all_records' = filled
           /\ merged' = merge_tables(filled, index_column, SchemaColumnNames(schema))
    /\ UNCHANGED <<emails, schema, rules, explain, use_synonyms, use_ai, ai_threshold,
                   rule_out, rule_order, index_column, schema_columns, ai_replies,
                   ai_configured, side_vars>>

NextEngine == JobEmailToTable
SpecEngine == InitEngine /\ [][NextEngine]_vars

\* the records of the job before gap-fill, in order, and for the r-th of them the
\* position of the email it was produced from
BuiltRecords == RecordsIn(Flatten(results))
OriginOf(r) == MinOf({e \in 1..Len(results) : r <= Len(Flatten(SubSeq(results, 1, e)))})

\* C13: for every record of a batch, the gap-fill pass fills the still-empty schema
\* columns from the email that record was produced from, never from another email.
C13_GapFillUsesSourceUnit ==
    pc = "job" =>
        \A r \in 1..Len(all_records) :
            all_records[r] = fill_missing_columns_from_context(
                                 BuiltRecords[r], emails[OriginOf(r)], schema,
                                 use_synonyms)

\* the partial records of the index group of the m-th output record, by the resolved
\* index column idx
GroupOfOutput(m, idx) ==
    {i \in 1..Len(all_records) :
        TrimmedIndex(all_records[i], idx) = TrimmedIndex(merged[m], idx)}

\* C14: where the records were merged by an index column, a column for which a
\* partial record of the index group held a non-empty value before gap-fill holds one
\* of those values in the merged record, never a value obtained by gap-fill.
C14_GapFillOnlyAfterMerge ==
    (pc = "job" /\ IndexName # "") =>
        LET idx == IndexName
            built == BuiltRecords
        IN \A m \in 1..Len(merged) : \A c \in 1..Len(schema_columns) :
               LET had == {strip(Get(built[i], schema_columns[c], "")) :
                              i \in GroupOfOutput(m, idx)} \ {""}
               IN (~BlankLike(TrimmedIndex(merged[m], idx)) /\ had # {})
                      => strip(Get(merged[m], schema_columns[c], "")) \in had

\* C17: in explain mode the explanation list is parallel to the record list: the same
\* length, and the i-th explanation reports a column as matched exactly when the i-th
\* output record holds a value for it.
C17_ExplanationsParallel ==
    (pc = "job" /\ explain) =>
        /\ Len(explanations) = Len(merged)
        /\ \A i \in 1..Len(merged) : \A c \in 1..Len(schema_columns) :
               Get(explanations[i], schema_columns[c], <<>>).matched
                   <=> Get(merged[i], schema_columns[c], "") # ""

\* ---- the AI-assist step of the job

\* the pairs <<record, explanation>> of the e-th email as the heuristic steps leave
\* them, in the call's explain mode and in explain mode
Heuristic(e, with_explain) ==
    expand_order_numbers_to_rows(emails[e], schema, rules, with_explain, use_synonyms,
                                 use_ai, ai_threshold)
\* the suggestion the collaborator has for a column, NoSuggestion if none
SuggestionFor(column) == suggest(ai_configured, ReplyFor(ai_replies, column))

\* C18: with assist enabled and the collaborator configured, every schema column whose
\* resolved confidence is below the threshold and for which the collaborator has a
\* non-empty suggestion holds that suggestion in the record, in and out of explain mode.
C18_LowConfidenceIsAssisted ==
    (pc = "job" /\ use_ai /\ ai_configured) =>
        \A e \in 1..Len(results) :
            LET resolved == Heuristic(e, TRUE)
            IN \A w \in 1..Len(results[e]) : \A c \in 1..Len(schema_columns) :
                   (/\ Get(resolved[w][2], schema_columns[c], <<>>).confidence
                           < ai_threshold
                    /\ SuggestionFor(schema_columns[c]) # NoSuggestion)
                       => Get(results[e][w][1], schema_columns[c], "")
                              = Get(SuggestionFor(schema_columns[c]), "value", "")

\* C20: every confidence in an explanation the job returns is an integer from 0 to 10.
C20_ConfidenceInRange ==
    pc = "job" =>
        \A i \in 1..Len(explanations) : \A c \in 1..Len(explanations[i]) :
            explanations[i][c][2].confidence \in 0..10

\* the request for a column fails: it times out, raises, or answers without a value
RequestFails(column) ==
    LET reply == ReplyFor(ai_replies, column)
    IN reply.kind \in {"timeout", "error"} \/ Get(reply.data, "value", "") = ""

\* C19: with assist enabled and configured, a column whose request times out, raises
\* or answers without a value keeps the record value and the explanation the heuristic
\* steps left, and the other columns and records are still processed: a column below
\* the threshold whose request succeeds takes the suggested value, source "ai_assist".
C19_AssistFailureIsLocal ==
    (pc = "job" /\ use_ai /\ ai_configured) =>
        \A e \in 1..Len(results) :
            LET left == Heuristic(e, explain)
            IN /\ Len(results[e]) = Len(left)
               /\ \A w \in 1..Len(left) : \A c \in 1..Len(schema_columns) :
                      LET column == schema_columns[c]
                          was == Get(left[w][2], column, <<>>)
                          now == Get(results[e][w][2], column, <<>>)
                      IN IF RequestFails(column)
                         THEN /\ Get(results[e][w][1], column, "")
                                     = Get(left[w][1], column, "")
                              /\ now = was
                         ELSE (explain /\ was.confidence < ai_threshold)
                                  => /\ Get(results[e][w][1], column, "")
                                            = Get(ReplyFor(ai_replies, column).data,
                                                  "value", "")
                                     /\ now.source = "ai_assist"

\* C19 witness: in explain mode a record whose Order request timed out keeps its
\* empty Order, unmatched, while its Status takes the suggestion, and the batch has
\* a record before it
C19_Witness ==
    /\ pc = "job" /\ use_ai /\ ai_configured /\ explain
    /\ ReplyFor(ai_replies, "Order").kind = "timeout"
    /\ Len(results) = 2
    /\ Get(results[2][1][1], "Order", "x") = ""
    /\ ~Get(results[2][1][2], "Order", <<>>).matched
    /\ Get(results[2][1][1], "Status", "") = "AI"
    /\ Get(results[2][1][2], "Status", <<>>).source = "ai_assist"
    /\ Get(results[1][1][1], "Order", "") = "55"

\* ---- C15: unresolvable columns

\* one-column schemas of every extract type, and auto columns of every kind of name
TypedColumns == {
    [name |-> "Order", extract_type |-> "number"], [name |-> "Code", extract_type |-> "mixed"],
    [name |-> "Due", extract_type |-> "date"], [name |-> "Start", extract_type |-> "time"],
    [name |-> "Total", extract_type |-> "amount"], [name |-> "Urgent", extract_type |-> "yesno"],
    [name |-> "Status", extract_type |-> "text"], [name |-> "Status"],
    [name |-> "Priority"], [name |-> "Total"], [name |-> "Due Date"],
    [name |-> "Meeting Time"], [name |-> "Notes"], [name |-> "Subject"] }
TypedUnits == {
    <<<<"subject", "Meeting">>,
      <<"body", "Status: open\nTotal: $45.50 due 12/01/2024 at 3:30 pm">>>>,
    <<<<"body", "nothing">>>>,
    <<<<"date", "2024-01-01">>, <<"body", "urgent MI-12345 notes">>>>,
    <<<<"Notes", "  ">>, <<"subject", "">>>> }
TypedRules == {<<>>, <<[column |-> "Notes", keywords |-> <<"zzz">>],
                       [column |-> "Code", keywords |-> <<"nothing">>, value |-> " "]>>}

InitTypes ==
    /\ pc = "start"
    /\ emails \in {<<u>> : u \in TypedUnits}
    /\ schema \in {<<col>> : col \in TypedColumns}
    /\ rules \in TypedRules
    /\ use_synonyms \in BOOLEAN
    /\ explain = TRUE /\ use_ai = FALSE /\ ai_threshold = 0 /\ results = <<>>
    /\ NoRules /\ NoMerge /\ NoEngine /\ NoSide

NextTypes == EmailToRecord
SpecTypes == InitTypes /\ [][NextTypes]_vars

\* C15: in explain mode, for every schema column of every record email_to_record
\* returns, the value is "" exactly when the explanation has matched = FALSE, and
\* exactly when its confidence is 0.
C15_UnresolvedIsEmptyUnmatchedZero ==
    (pc = "record" /\ explain) =>
        \A k \in 1..Len(results) : \A c \in 1..Len(schema) :
            LET value == Get(RecordOf(k, 1), ColumnNames[c], "?")
                meta == Get(ExplanationOf(k, 1), ColumnNames[c], <<>>)
            IN /\ (value = "") <=> ~meta.matched
               /\ (value = "") <=> (meta.confidence = 0)

\* C15 witness: a column no step resolves, left "" with matched = FALSE and confidence
\* 0, by a smart search of a typed column
C15_Witness ==
    /\ pc = "record" /\ explain /\ Len(results) = 1
    /\ ColType(schema[1]) = "amount"
    /\ Get(RecordOf(1, 1), ColumnNames[1], "?") = ""
    /\ ~Get(ExplanationOf(1, 1), ColumnNames[1], <<>>).matched
    /\ Get(ExplanationOf(1, 1), ColumnNames[1], <<>>).confidence = 0

\* ---- C16: idempotence of email_to_record

TextAfterLabel(unit, label) ==
    LET body == Field(unit, "body")
        at == find(lower(body), lower(label) \o ":")
        rest == Slice(body, at + Len(label) + 1, Len(body))
        stop == find(rest, "\n")
    IN strip(IF stop = 0 THEN rest ELSE Slice(rest, 1, stop - 1))
\* the column has no direct key, no standard field and no rule, and is resolved in
\* auto mode from a label of the body
ResolvedFromLabel(k, c) ==
    /\ ColType(schema[c]) = "auto"
    /\ DirectScan(emails[k], ColumnNames[c], use_synonyms)[1] = ""
    /\ Get(extract_email_fields(emails[k]), ColumnNames[c], "") = ""
    /\ \A i \in 1..Len(rules) : RuleColumn(rules[i]) # ColumnNames[c]
    /\ Get(ExplanationOf(k, 1), ColumnNames[c], <<>>).source = "smart_label_match"

\* C21: a column with no direct key, no standard field and no rule that is resolved
\* in auto mode from a "Label: value" line of the body holds the text after the label,
\* and its explanation has a confidence of at least 6.
C21_LabelValueConfidence ==
    pc = "record" =>
        \A k \in 1..Len(results) : \A c \in 1..Len(schema) :
            ResolvedFromLabel(k, c) =>
                /\ Get(RecordOf(k, 1), ColumnNames[c], "")
                       = TextAfterLabel(emails[k], ColumnNames[c])
                /\ Get(ExplanationOf(k, 1), ColumnNames[c], <<>>).confidence >= 6

\* ---- SynonymResolver ----

\* a table in which "po" leads to "purchase order" and that to "requisition"
ChainTable == <<<<"po", <<"purchase order">>>>,
                <<"purchase order", <<"requisition">>>>>>
\* the config file: absent, unreadable, not JSON, or JSON whose data is a list, a dict
\* without "synonyms", one with a table, one whose "synonyms" is a list or null
File(kind, data) == [kind |-> kind, data |-> data]
ConfigFiles == <<
    File("absent", JNull), File("unreadable", JNull), File("invalid", JNull),
    File("json", JList(<<>>)),
    File("json", JDict(<<>>)),
    File("json", JDict(<<<<"synonyms", JDict(ChainTable)>>>>)),
    File("json", JDict(<<<<"synonyms", JList(<<"qc", "wo", "eq">>)>>>>)),
    File("json", JDict(<<<<"synonyms", JNull>>>>)) >>
ResolverNames == {"QC", "PO", "purchase order", "Requisition", " wo ", "Order Number",
                  "Status"}
ResolverColumns == {"QC", "Quality Criticality", "Purchase Order", "PO", "Status"}
MaxCandidates == 2

Called(op, args, out) == [op |-> op, args |-> args, out |-> out]

InitSynonyms ==
    /\ pc = "start"
    /\ \E i \in 1..Len(ConfigFiles) : config = ConfigFiles[i]
    /\ synonyms = JNull
    /\ call = Called("none", <<>>, Returned(<<>>))
    /\ emails = <<>> /\ rules = <<>>
    /\ NoRules /\ NoBuild /\ NoMerge /\ NoEngine /\ NoLearner /\ NoMaster

\* SynonymResolver(config_path); no call assigns self.synonyms afterwards, so each
\* call of a session is a call on the resolver as constructed
Construct ==
    /\ pc = "start" /\ pc' = "resolver"
    /\ synonyms' = SynonymResolver(config)
    /\ UNCHANGED <<config, call, job_vars, learner_vars, master_vars>>
\* resolver.get_synonyms(column_name)
GetSynonyms ==
    /\ pc = "resolver" /\ pc' = "called"
    /\ \E name \in ResolverNames :
           call' = Called("get_synonyms", <<name>>, resolver_get_synonyms(synonyms, name))
    /\ UNCHANGED <<config, synonyms, job_vars, learner_vars, master_vars>>
\* resolver.matches(column_name, search_term)
ColumnsMatch ==
    /\ pc = "resolver" /\ pc' = "called"
    /\ \E column_name \in ResolverColumns, search_term \in ResolverNames :
           call' = Called("matches", <<column_name, search_term>>,
                          resolver_matches(synonyms, column_name, search_term))
    /\ UNCHANGED <<config, synonyms, job_vars, learner_vars, master_vars>>
\* resolver.find_matching_column(search_term, available_columns)
FindMatchingColumn ==
    /\ pc = "resolver" /\ pc' = "called"
    /\ \E search_term \in ResolverNames :
       \E available_columns \in SeqsUpTo(ResolverColumns, MaxCandidates) :
           call' = Called("find_matching_column", <<search_term, available_columns>>,
                          find_matching_column(synonyms, search_term, available_columns))
    /\ UNCHANGED <<config, synonyms, job_vars, learner_vars, master_vars>>

NextSynonyms == Construct \/ GetSynonyms \/ ColumnsMatch \/ FindMatchingColumn
SpecSynonyms == InitSynonyms /\ [][NextSynonyms]_vars

\* the config file gives no table: it is absent, unreadable, not JSON, or JSON whose
\* data is no mapping or whose "synonyms" entry is no mapping
Unusable(cfg) ==
    \/ cfg.kind # "json"
    \/ cfg.data.type # "dict"
    \/ /\ Has(cfg.data.items, "synonyms")
       /\ Get(cfg.data.items, "synonyms", JNull).type # "dict"

\* C22: whatever the state of the config file, the resolver is constructed and no
\* later get_synonyms, matches or find_matching_column call raises; whenever the
\* config is unusable the table in effect is the built-in default table.
C22_ConfigFailuresNeverFatal ==
    pc \in {"resolver", "called"} =>
        /\ ~call.out.raised
        /\ Unusable(config) =>
               synonyms.type = "dict" /\ synonyms.items = DefaultSynonyms

\* the candidates equal to the term up to case and surrounding blanks, and those
\* that match it through its synonyms
ExactHits(term, candidates) ==
    {i \in 1..Len(candidates) : strip(lower(candidates[i])) = strip(lower(term))}
AliasHits(term, candidates) ==
    {i \in 1..Len(candidates) :
        ColumnHit(candidates[i], strip(lower(term)),
                  get_synonyms_in(synonyms.items, term))}

\* C23: find_matching_column returns the first candidate equal to the term up to case
\* whenever there is one, even after a candidate that matches only through an alias;
\* without an exact candidate it returns the first that matches through the alias
\* set, and None when no candidate matches.
C23_ExactCandidateFirst ==
    (call.op = "find_matching_column" /\ ~call.out.raised) =>
        LET term == call.args[1]
            candidates == call.args[2]
            exact == ExactHits(term, candidates)
            alias == AliasHits(term, candidates)
        IN call.out.value =
               IF exact # {} THEN Some(candidates[MinOf(exact)])
               ELSE IF alias # {} THEN Some(candidates[MinOf(alias)])
               ELSE None

\* the names of the table's entries directly related to a name: the entry under the
\* name, those listing it as an alias, and those whose key contains it or is
\* contained in it
DirectNames(table, name_lower) ==
    UNION {{table[i][1]} \cup SeqToSet(table[i][2]) :
           i \in {j \in 1..Len(table) :
                     \/ table[j][1] = name_lower
                     \/ name_lower \in SeqToSet(table[j][2])
                     \/ In(table[j][1], name_lower) \/ In(name_lower, table[j][1])}}

\* C24: get_synonyms is a one-hop lookup: the list starts with the given name, has no
\* two entries equal up to case, and holds only the name and names of entries directly
\* related to it, so that the alias of an alias is not in it.
C24_OneHopLookup ==
    (call.op = "get_synonyms" /\ ~call.out.raised) =>
        LET name == call.args[1]
            out == call.out.value
        IN /\ out[1] = name
           /\ \A i, j \in 1..Len(out) : i # j => lower(out[i]) # lower(out[j])
           /\ \A i \in 2..Len(out) :
                  out[i] \in DirectNames(synonyms.items, strip(lower(name)))

\* C24 witness: with "po" linked to "purchase order" and that to "requisition",
\* get_synonyms("PO") has returned "purchase order" and not "requisition"
C24_Witness ==
    /\ synonyms.type = "dict" /\ synonyms.items = ChainTable
    /\ call.op = "get_synonyms" /\ call.args = <<"PO">>
    /\ ~call.out.raised
    /\ "purchase order" \in SeqToSet(call.out.value)
    /\ "requisition" \notin SeqToSet(call.out.value)

\* ---- PatternLearner ----

LearnerSchema == <<[name |-> "Order"], [name |-> "Equipment"]>>
LearnerRecords == {
    <<<<"Order", "4000390042">>>>,
    <<<<"Order", "4000111222 ZM03">>, <<"Equipment", "300020888">>>> }
MaxBatch == 3
MaxWeight == 6
\* the tables a cache file left by earlier runs holds
StoredTables ==
    {<<>>} \cup {<<<<"4000#", <<<<"work_order", w>>>>>>>> : w \in 1..MaxWeight}

InitLearner ==
    /\ pc = "start"
    /\ cache \in {Cache(FALSE, <<>>)} \cup {Cache(TRUE, Dumped(t)) : t \in StoredTables}
    /\ learned = <<>> /\ analyzed = <<>>
    /\ schema = LearnerSchema
    /\ emails = <<>> /\ rules = <<>> /\ explain = FALSE /\ use_synonyms = TRUE
    /\ use_ai = FALSE /\ ai_threshold = 0 /\ results = <<>>
    /\ NoRules /\ NoMerge /\ NoEngine /\ NoResolver /\ NoMaster

\* PatternLearner(cache_file), in a new process or after one that failed
LoadPatterns ==
    /\ pc \in {"start", "failed"} /\ pc' = "ready"
    /\ learned' = _load_patterns(cache)
    /\ UNCHANGED <<cache, analyzed, job_vars, resolver_vars, master_vars>>
\* analyze_records(records, schema_columns) up to its call of _save_patterns
AnalyzeRecords ==
    /\ pc = "ready" /\ pc' = "save"
    /\ \E recs \in SeqsUpTo(LearnerRecords, MaxBatch) :
           /\ analyzed' = recs
           /\ learned' = analyze_records(learned, recs, schema)
    /\ UNCHANGED <<cache, job_vars, resolver_vars, master_vars>>
\* _save_patterns: path.open('w') creates the file or truncates it
OpenCache ==
    /\ pc = "save" /\ pc' = "dump"
    /\ cache' = Cache(TRUE, <<>>)
    /\ UNCHANGED <<learned, analyzed, job_vars, resolver_vars, master_vars>>
\* _save_patterns: json.dump writes the next chunk
DumpChunk ==
    /\ pc = "dump"
    /\ Len(cache.content) < Len(Dumped(learned))
    /\ cache' = Cache(TRUE, Append(cache.content, Dumped(learned)[Len(cache.content) + 1]))
    /\ UNCHANGED <<pc, learned, analyzed, job_vars, resolver_vars, master_vars>>
\* _save_patterns: the file is closed, analyze_records returns
CloseCache ==
    /\ pc = "dump" /\ pc' = "ready"
    /\ Len(cache.content) = Len(Dumped(learned))
    /\ UNCHANGED <<cache, learned, analyzed, job_vars, resolver_vars, master_vars>>
\* the run is cancelled or the process fails: what it held in memory is lost
Fail ==
    /\ pc \in {"ready", "save", "dump"} /\ pc' = "failed"
    /\ learned' = <<>> /\ analyzed' = <<>>
    /\ UNCHANGED <<cache, job_vars, resolver_vars, master_vars>>

NextLearner ==
    LoadPatterns \/ AnalyzeRecords \/ OpenCache \/ DumpChunk \/ CloseCache \/ Fail
SpecLearner == InitLearner /\ [][NextLearner]_vars

\* C25: the cache is persisted atomically: after a run is cancelled or the process
\* fails at any point of a save, the cache file holds a complete table, the previous
\* or the new one, never an empty or partly written text that a later load would
\* replace by the empty table.
C25_CacheSavedAtomically ==
    pc = "failed" => (cache.exists => Loads(cache.content))

\* the stored weight of a (number-pattern class, field type) pair, 0 when absent
WeightOf(stored, pair) == Get(Get(stored, pair[1], <<>>), pair[2], 0)
\* the pairs observed in the analyzed batch, and how often each one was
Observed == SeqToSet(Observations(analyzed, schema))
TimesObserved(pair) ==
    Cardinality({i \in 1..Len(Observations(analyzed, schema)) :
                    Observations(analyzed, schema)[i] = pair})

\* C26: after analyze_records on a batch in which a (class, field type) pair was
\* observed c >= 1 times and had the stored weight w (0 if absent), the stored weight
\* of the pair is the integer floor(0.7 * w + 0.3 * c), that is floor((7w + 3c) / 10).
C26_WeightedUpdate ==
    pc = "save" =>
        \A pair \in Observed :
            WeightOf(learned, pair)
                = (7 * WeightOf(_load_patterns(cache), pair) + 3 * TimesObserved(pair))
                      \div 10

\* C27: the marker key _focus_order that expansion adds to a unit is never the source
\* of a schema column in the direct-key scan of email_to_record: in an expanded record
\* no column other than the index column takes its value from the marker.
C27_FocusMarkerIsNoSource ==
    pc = "expand" =>
        \A k \in 1..Len(results) : \A m \in 1..Len(results[k]) :
            \A c \in 1..Len(schema) :
                (/\ ColumnNames[c] # FindOrderColumn(schema)
                 /\ Has(ExplanationOf(k, m), ColumnNames[c]))
                    => Get(ExplanationOf(k, m), ColumnNames[c], <<>>).matched_term
                           # "_focus_order"

\* ---- append_to_master ----

MasterHeaders == <<"Order", "Status">>
NewHeaders == {<<"Order", "Status">>, <<"Status", "Order">>, <<"Status">>}
MasterRows == {<<"1", "a">>, <<"2", "b">>, <<"1", "b">>}
NewRows == MasterRows \cup {<<"a">>}
MaxRows == 2
Arguments(existing_headers, existing_rows, new_headers, new_rows, deduplicate_column) ==
    [existing_headers |-> existing_headers, existing_rows |-> existing_rows,
     new_headers |-> new_headers, new_rows |-> new_rows,
     deduplicate_column |-> deduplicate_column]

InitMaster ==
    /\ pc = "start"
    /\ master \in {Arguments(MasterHeaders, existing_rows, new_headers, new_rows,
                             deduplicate_column) :
                      existing_rows \in SeqsUpTo(MasterRows, MaxRows),
                      new_headers \in NewHeaders,
                      new_rows \in SeqsUpTo(NewRows, MaxRows),
                      deduplicate_column \in {"", "Order", "Missing"}}
    /\ appended = <<>>
    /\ emails = <<>> /\ rules = <<>>
    /\ NoRules /\ NoBuild /\ NoMerge /\ NoEngine /\ NoResolver /\ NoLearner

\* append_rows(existing_headers, existing_rows, new_headers, new_rows,
\*             deduplicate_column)
AppendRows ==
    /\ pc = "start" /\ pc' = "appended"
    /\ appended' = append_rows(master.existing_headers, master.existing_rows,
                               master.new_headers, master.new_rows,
                               master.deduplicate_column)
    /\ UNCHANGED <<master, job_vars, resolver_vars, learner_vars>>

NextMaster == AppendRows
SpecMaster == InitMaster /\ [][NextMaster]_vars

\* the rows have pairwise distinct values in the column at position idx
DistinctIn(rows, idx) ==
    \A i, j \in 1..Len(rows) : i # j => rows[i][idx] # rows[j][idx]
Among(headers, column) == \E i \in 1..Len(headers) : headers[i] = column

\* C28: append_rows with a deduplicate_column present in both header lists never
\* produces duplicates: if the existing rows have pairwise distinct values in that
\* column, so have the rows of the result, whatever the new rows are.
C28_AppendNeverDuplicates ==
    (/\ pc = "appended"
     /\ Among(master.existing_headers, master.deduplicate_column)
     /\ Among(master.new_headers, master.deduplicate_column)
     /\ DistinctIn(master.existing_rows,
                   IndexOf(master.existing_headers, master.deduplicate_column)))
        => DistinctIn(appended[2], IndexOf(appended[1], master.deduplicate_column))

\* the rule that decides a column: the first of the sorted rules that targets it
DecidingRule(name) ==
    LET sorted == sorted_rules(rules)
    IN sorted[MinOf({i \in 1..Len(sorted) : RuleColumn(sorted[i]) = name})]

\* C29: in explain mode, the explanation of a column whose value comes from the rule
\* step has matched = true only if a keyword or the regex of the deciding rule matched
\* the unit; a column that receives the rule's non-empty unmatched_value is reported
\* with matched = false and confidence 0.
C29_RuleExplanationTellsMatch ==
    (pc = "record" /\ explain) =>
        \A k \in 1..Len(results) : \A c \in 1..Len(schema) :
            LET e == Get(ExplanationOf(k, 1), ColumnNames[c], <<>>)
            IN (Has(ExplanationOf(k, 1), ColumnNames[c]) /\ e.source = "rule") =>
                   LET m == RuleMatch(emails[k], DecidingRule(ColumnNames[c]))
                   IN /\ e.matched => m.matched
                      /\ ~m.matched => (~e.matched /\ e.confidence = 0)


\* the input records merge_tables leaves unmerged when grouping by the column idx:
\* all of them without an index column, else those with a blank-like index value and
\* those that alone have their trimmed index value
Unmerged(idx) ==
    {i \in 1..Len(all_records) :
        \/ idx = ""
        \/ BlankLike(TrimmedIndex(all_records[i], idx))
        \/ Sharing(TrimmedIndex(all_records[i], idx), idx) = {i}}
\* the first input record with the trimmed index value v
FirstSharing(v, idx) == CHOOSE i \in Sharing(v, idx) : \A j \in Sharing(v, idx) : i <= j

\* C30: merge_tables keeps input order: the output records of two index groups stand
\* in the order in which the groups first occur in the input, and any two input
\* records that are not merged with another record, those with a blank index value
\* included, stand in the output in the same relative order as in the input.
C30_MergeKeepsInputOrder ==
    LET idx == IndexName
        cols == OutColumns
        values == {TrimmedIndex(all_records[i], idx) : i \in 1..Len(all_records)}
        groups == {v \in values : ~BlankLike(v)}
    IN (pc = "merge" /\ all_records # <<>>) =>
           /\ idx # "" =>
                  \A v, w \in groups :
                      FirstSharing(v, idx) < FirstSharing(w, idx) =>
                          \A m \in EmittedFor(v, idx) : \A n \in EmittedFor(w, idx) : m < n
           /\ \A i, j \in Unmerged(idx) :
                  i < j => \E m, n \in 1..Len(merged) :
                               /\ m < n
                               /\ merged[m] = Normalized(all_records[i], cols)
                               /\ merged[n] = Normalized(all_records[j], cols)

====
